---- MODULE Spec2Model ----
(***************************************************************************)
(* Slide injection of merged.js: a template page is copied into an output  *)
(* PPTX package, its layout / master / theme / media are cloned, and the   *)
(* three coordination files (presentation.xml, presentation.xml.rels,      *)
(* [Content_Types].xml) are patched.                                       *)
(*                                                                         *)
(* A part path is a record [k, n, x]: `ppt/slides/slide3.xml` is           *)
(* P("slide", 3, "xml"), `ppt/media/template_media_2.emf` is               *)
(* P("template_media_", 2, "emf").  A relationship Target is kept as the   *)
(* absolute path it resolves to (resolveRelationshipPath after             *)
(* relativePath gives the path back for parts under ppt/).                 *)
(***************************************************************************)
EXTENDS Integers, Sequences, FiniteSets, TLC

VARIABLES disk, pre, st, op, calls, pc, cfg, batch, pdf

vars == <<disk, pre, st, op, calls, pc, cfg, batch, pdf>>

\* ------------------------------------------------------------------ bounds

\* insert calls made on one output package in the free-order specification
MaxCalls == 2

\* images of one category handed to one insertImageSlidesByCategory call
MaxImages == 2

\* new slides pending when buildSlideEntries is applied on its own
MaxPending == 3

\* clone requests made on one injection state
MaxClones == 3
MaxTasks == 3
MaxQueueLimit == 2
MaxEmployees == 3
MaxConcurrency == 2
MaxFiles == 2
MaxElements == 2
MaxValueLen == 2

\* ------------------------------------------------------------------- paths

P(k, n, x) == [k |-> k, n |-> n, x |-> x]

NoPath == P("none", 0, "")

SlidePath(n) == P("slide", n, "xml")

LayoutPath(n) == P("slideLayout", n, "xml")

MasterPath(n) == P("slideMaster", n, "xml")

ThemePath(n) == P("theme", n, "xml")

NotesPath(n) == P("notesSlide", n, "xml")

\* the relationships file of a part: ppt/<dir>/_rels/<name>.rels
RelsPath(p) == P(p.k, p.n, "xml.rels")

\* file-name prefixes of the parts under ppt/media/
MediaKinds == {"image", "image_", "template_media_"}

IsMedia(p) == p.k \in MediaKinds

MaxOf(S) == CHOOSE m \in S : \A y \in S : y <= m

SeqToSet(s) == {s[i] : i \in 1..Len(s)}

REL_TYPES ==
    [slide |-> "slide", slideLayout |-> "slideLayout",
     slideMaster |-> "slideMaster", theme |-> "theme", image |-> "image"]

Rel(id, type, target) == [Id |-> id, Type |-> type, Target |-> target]

\* ---------------------------------------------------------------- template

\* The template package: pages 1 (cover), 2 (inbody), 3 (lab), 4 (ecg),
\* 6 (guidance) and 7 (closing); page 5 (ai) is absent.  Two masters share
\* one theme.
\* image9.png and notesSlide9.xml are referenced but absent.  Two further
\* pages have a damaged layout: layout4 (of page 8) has no relationships
\* file, layout5 (of page 9) has one that names no master.
TemplateParts ==
    {SlidePath(1), SlidePath(2), SlidePath(3), SlidePath(4), SlidePath(6),
     SlidePath(7), SlidePath(8), SlidePath(9),
     LayoutPath(1), LayoutPath(2), LayoutPath(3), LayoutPath(4), LayoutPath(5),
     MasterPath(1), MasterPath(2), ThemePath(1),
     P("image", 1, "emf"), P("image", 2, "png"), P("image", 3, "emf"),
     NotesPath(1)}

TemplateRelsOf(p) ==
    CASE p = SlidePath(1) ->
           <<Rel("rId1", "slideLayout", LayoutPath(1)),
             Rel("rId2", "image", P("image", 1, "emf")),
             Rel("rId3", "notesSlide", NotesPath(1))>>
      [] p = SlidePath(2) ->
           <<Rel("rId1", "slideLayout", LayoutPath(2)),
             Rel("rId2", "image", P("image", 2, "png")),
             Rel("rId3", "slide", SlidePath(3))>>
      [] p = SlidePath(3) ->
           <<Rel("rId1", "slideLayout", LayoutPath(2)),
             Rel("rId2", "image", P("image", 9, "png")),
             Rel("rId3", "notesSlide", NotesPath(9))>>
      [] p = SlidePath(4) ->
           <<Rel("rId1", "slideLayout", LayoutPath(3)),
             Rel("rId2", "image", P("image", 2, "png"))>>
      [] p = SlidePath(6) ->
           <<Rel("rId1", "slideLayout", LayoutPath(3))>>
      [] p = SlidePath(7) ->
           <<Rel("rId1", "slideLayout", LayoutPath(1)),
             Rel("rId2", "image", P("image", 3, "emf"))>>
      [] p = SlidePath(8) ->
           <<Rel("rId1", "slideLayout", LayoutPath(4))>>
      [] p = SlidePath(9) ->
           <<Rel("rId1", "slideLayout", LayoutPath(5))>>
      [] p = LayoutPath(5) ->
           <<Rel("rId1", "image", P("image", 1, "emf"))>>
      [] p = LayoutPath(1) ->
           <<Rel("rId1", "slideMaster", MasterPath(1)),
             Rel("rId2", "image", P("image", 1, "emf"))>>
      [] p = LayoutPath(2) ->
           <<Rel("rId1", "slideMaster", MasterPath(1))>>
      [] p = LayoutPath(3) ->
           <<Rel("rId1", "slideMaster", MasterPath(2))>>
      [] p = MasterPath(1) ->
           <<Rel("rId1", "slideLayout", LayoutPath(1)),
             Rel("rId2", "slideLayout", LayoutPath(2)),
             Rel("rId3", "theme", ThemePath(1))>>
      [] p = MasterPath(2) ->
           <<Rel("rId1", "slideLayout", LayoutPath(3)),
             Rel("rId2", "theme", ThemePath(1))>>
      [] OTHER -> <<>>

\* parts of the template that come with a relationships file
TemplateHasRels(p) ==
    /\ p \in TemplateParts
    /\ p.k \in {"slide", "slideLayout", "slideMaster"}
    /\ p # LayoutPath(4)

\* ---------------------------------------------------------- output package

\* Master ids are kept relative to 2147483648 (2^31), the value the code
\* starts from: TLC's integers are 32 bits wide.
MasterIdOrigin == 0

Orig == P("orig", 0, "")

SldId(id, rid) == [id |-> id, rid |-> rid]

PresRel(rid, type, target) == [rid |-> rid, type |-> type, target |-> target]

\* The deck PptxGenJS writes before any page is injected: no slide, one
\* master with one layout and one theme, an empty <p:sldIdLst>.
FreshDeck ==
    [zip |-> [p \in {MasterPath(1), LayoutPath(1), ThemePath(1)} |-> Orig],
     rels |-> (RelsPath(MasterPath(1)) :>
                   <<Rel("rId1", "slideLayout", LayoutPath(1)),
                     Rel("rId2", "theme", ThemePath(1))>>)
              @@ (RelsPath(LayoutPath(1)) :>
                   <<Rel("rId1", "slideMaster", MasterPath(1))>>),
     meta |-> {"presentation.xml", "presentation.xml.rels", "[Content_Types].xml"},
     sldIdLst |-> <<>>,
     sldMasterIdLst |-> <<SldId(MasterIdOrigin, 1)>>,
     presRels |-> <<PresRel(1, "slideMaster", MasterPath(1)),
                    PresRel(2, "presProps", NoPath),
                    PresRel(3, "viewProps", NoPath),
                    PresRel(4, "theme", ThemePath(1)),
                    PresRel(5, "tableStyles", NoPath)>>,
     ctDefaults |-> <<"xml", "rels", "jpeg", "jpg", "png", "gif">>,
     ctOverrides |-> <<MasterPath(1), LayoutPath(1), ThemePath(1)>>]

\* A deck edited before: slide numbers, slide ids and relationship ids have
\* gaps, and media of several extensions is present.
EditedDeck ==
    [zip |-> [p \in {MasterPath(1), MasterPath(2), LayoutPath(1), ThemePath(1),
                     SlidePath(1), SlidePath(3),
                     P("image", 1, "png"), P("template_media_", 2, "emf")} |-> Orig],
     rels |-> (RelsPath(MasterPath(1)) :>
                   <<Rel("rId1", "slideLayout", LayoutPath(1)),
                     Rel("rId2", "theme", ThemePath(1))>>)
              @@ (RelsPath(LayoutPath(1)) :>
                   <<Rel("rId1", "slideMaster", MasterPath(1))>>)
              @@ (RelsPath(MasterPath(2)) :>
                   <<Rel("rId1", "theme", ThemePath(1))>>)
              @@ (RelsPath(SlidePath(1)) :>
                   <<Rel("rId1", "slideLayout", LayoutPath(1)),
                     Rel("rId2", "image", P("image", 1, "png"))>>)
              @@ (RelsPath(SlidePath(3)) :>
                   <<Rel("rId1", "slideLayout", LayoutPath(1)),
                     Rel("rId2", "image", P("template_media_", 2, "emf"))>>),
     meta |-> {"presentation.xml", "presentation.xml.rels", "[Content_Types].xml"},
     sldIdLst |-> <<SldId(256, 2), SldId(258, 4)>>,
     sldMasterIdLst |-> <<SldId(MasterIdOrigin, 1), SldId(MasterIdOrigin + 2, 7)>>,
     presRels |-> <<PresRel(1, "slideMaster", MasterPath(1)),
                    PresRel(2, "slide", SlidePath(1)),
                    PresRel(4, "slide", SlidePath(3)),
                    PresRel(5, "theme", ThemePath(1)),
                    PresRel(7, "slideMaster", MasterPath(2))>>,
     ctDefaults |-> <<"xml", "rels", "png">>,
     ctOverrides |-> <<MasterPath(1), MasterPath(2), LayoutPath(1), ThemePath(1),
                       SlidePath(1), SlidePath(3)>>]

MetaFiles == {"presentation.xml", "presentation.xml.rels", "[Content_Types].xml"}

\* the fresh deck with one of the three documents of the presentation gone
IncompleteDeck(missing) == [FreshDeck EXCEPT !.meta = MetaFiles \ {missing}]

InitialDecks ==
    {FreshDeck, EditedDeck} \cup {IncompleteDeck(m) : m \in MetaFiles}

\* --------------------------------------------------------- injection state

\* the smallest m >= n outside S: `while (S.has(n)) n++`
FirstFree(n, S) ==
    CHOOSE m \in n..(n + Cardinality(S)) :
        m \notin S /\ \A j \in n..(m - 1) : j \in S

\* getNextNumber over the files of one numbered kind (slideN.xml, ...)
GetNextNumber(zip, kind) ==
    LET files == {p \in DOMAIN zip : p.k = kind /\ p.x = "xml"}
    IN  IF files = {} THEN 1 ELSE MaxOf({p.n : p \in files}) + 1

\* the extensions getInitialMediaCounter's file pattern lists
ScannedMediaExts == {"png", "jpg", "jpeg", "bmp", "gif"}

GetInitialMediaCounter(zip) ==
    LET mediaFiles == {p \in DOMAIN zip : IsMedia(p) /\ p.x \in ScannedMediaExts}
    IN  IF mediaFiles = {} THEN 1 ELSE MaxOf({p.n : p \in mediaFiles}) + 1


EmptyMap == [p \in {} |-> NoPath]

FirstSlideId == 256

FirstRelId == 1

\* initializeState: the ids and file numbers scanned from the output package.
\* zip, rels, log, warns and err are the package being edited, the writes made
\* to it in order, the console warnings and the exception thrown, if any.
InitializeState(pkg) ==
    LET existingSlideIds == {pkg.sldIdLst[i].id : i \in 1..Len(pkg.sldIdLst)}
        existingRelIds == {pkg.presRels[i].rid : i \in 1..Len(pkg.presRels)}
        existingMasterIds ==
            {pkg.sldMasterIdLst[i].id : i \in 1..Len(pkg.sldMasterIdLst)}
    IN  [err |-> IF MetaFiles \subseteq pkg.meta THEN "" ELSE "incomplete",
         zip |-> pkg.zip,
         rels |-> pkg.rels,
         meta |-> pkg.meta,
         log |-> <<>>,
         warns |-> {},
         sldIdLst |-> pkg.sldIdLst,
         sldMasterIdLst |-> pkg.sldMasterIdLst,
         presRels |-> pkg.presRels,
         ctDefaults |-> pkg.ctDefaults,
         ctOverrides |-> pkg.ctOverrides,
         nextSlideNumber |-> GetNextNumber(pkg.zip, "slide"),
         nextSlideId |-> FirstFree(FirstSlideId, existingSlideIds),
         nextRelId |-> FirstFree(FirstRelId, existingRelIds),
         nextLayoutNumber |-> GetNextNumber(pkg.zip, "slideLayout"),
         nextMasterNumber |-> GetNextNumber(pkg.zip, "slideMaster"),
         nextThemeNumber |-> GetNextNumber(pkg.zip, "theme"),
         nextMasterId |-> IF existingMasterIds = {} THEN MasterIdOrigin
                          ELSE MaxOf(existingMasterIds) + 1,
         mediaCounter |-> GetInitialMediaCounter(pkg.zip),
         layoutMap |-> EmptyMap,
         masterMap |-> EmptyMap,
         themeMap |-> EmptyMap,
         mediaMap |-> EmptyMap,
         newSlides |-> <<>>,
         finalSlides |-> <<>>,
         newMastersList |-> <<>>,
         existingSlideIds |-> existingSlideIds,
         existingRelIds |-> existingRelIds,
         existingMasterIds |-> existingMasterIds]

\* outputZip.generate + fs.writeFile: the package as it is written back
PackageOf(s) ==
    [zip |-> s.zip, rels |-> s.rels, meta |-> s.meta,
     sldIdLst |-> s.sldIdLst, sldMasterIdLst |-> s.sldMasterIdLst,
     presRels |-> s.presRels,
     ctDefaults |-> s.ctDefaults, ctOverrides |-> s.ctOverrides]

\* outputZip.file(path, content): later writes win
ZipFile(s, path, content) ==
    [s EXCEPT !.zip = (path :> content) @@ s.zip,
              !.log = Append(s.log, path)]

\* outputZip.file(relsPath, buildRelationshipsXml(rels))
ZipRels(s, owner, rs) ==
    [s EXCEPT !.rels = (RelsPath(owner) :> rs) @@ s.rels,
              !.log = Append(s.log, RelsPath(owner))]

Throw(s, msg) == [s EXCEPT !.err = msg]

Ret(s, r) == [st |-> s, ret |-> r]

\* `const x = v` followed by F(x): v is evaluated once
Bind(v, F(_)) == CHOOSE r \in {F(x) : x \in {v}} : TRUE

\* ------------------------------------------------------------ content types

\* ensureDefaultContentType: a <Default> is inserted right after <Types ...>
\* unless one with this extension is declared
EnsureDefaultContentType(s, ext) ==
    IF ext \in SeqToSet(s.ctDefaults) THEN s
    ELSE [s EXCEPT !.ctDefaults = <<ext>> \o s.ctDefaults]

\* ensureContentType: an <Override> is appended before </Types> unless one
\* with this PartName is declared
EnsureContentType(s, partName) ==
    IF partName \in SeqToSet(s.ctOverrides) THEN s
    ELSE [s EXCEPT !.ctOverrides = Append(s.ctOverrides, partName)]

\* ------------------------------------------------------------------ cloning

\* copyMediaFile without the mediaMap lookup: every request copies
CopyMediaFileNoMemo(s, sourcePath) ==
    IF sourcePath \notin TemplateParts
    THEN Ret([s EXCEPT !.warns = s.warns \cup {sourcePath}], sourcePath)
    ELSE LET newName == P("template_media_", s.mediaCounter, sourcePath.x)
         IN  Ret([ZipFile([s EXCEPT !.mediaCounter = s.mediaCounter + 1],
                          newName, sourcePath)
                    EXCEPT !.mediaMap = (sourcePath :> newName) @@ s.mediaMap],
                 newName)

\* copyMediaFile: memoized by source path; a source absent from the template
\* is warned about and its own path returned
CopyMediaFile(s, sourcePath) ==
    IF sourcePath \in DOMAIN s.mediaMap THEN Ret(s, s.mediaMap[sourcePath])
    ELSE IF sourcePath \notin TemplateParts
    THEN Ret([s EXCEPT !.warns = s.warns \cup {sourcePath}], sourcePath)
    ELSE LET newName == P("template_media_", s.mediaCounter, sourcePath.x)
         IN  Ret([ZipFile([s EXCEPT !.mediaCounter = s.mediaCounter + 1],
                          newName, sourcePath)
                    EXCEPT !.mediaMap = (sourcePath :> newName) @@ s.mediaMap],
                 newName)

\* copyMediaFile as src/templateSlides.js has it: a source absent from the
\* template is an error
CopyMediaFileOfTemplateSlides(s, sourcePath) ==
    IF sourcePath \in DOMAIN s.mediaMap THEN Ret(s, s.mediaMap[sourcePath])
    ELSE IF sourcePath \notin TemplateParts
    THEN Ret(Throw(s, "template resource missing"), NoPath)
    ELSE LET newName == P("template_media_", s.mediaCounter, sourcePath.x)
         IN  Ret([ZipFile([s EXCEPT !.mediaCounter = s.mediaCounter + 1],
                          newName, sourcePath)
                    EXCEPT !.mediaMap = (sourcePath :> newName) @@ s.mediaMap],
                 newName)

\* copyGenericPart: the part keeps its template path; it is copied when the
\* output has no part of that path and the template has one
CopyGenericPart(s, sourcePath) ==
    IF sourcePath \in DOMAIN s.zip THEN Ret(s, sourcePath)
    ELSE Bind(IF sourcePath \in TemplateParts
              THEN ZipFile(s, sourcePath, sourcePath)
              ELSE s,
         LAMBDA s1 :
             Ret(IF sourcePath.k = "notesSlide"
                 THEN EnsureContentType(s1, sourcePath)
                 ELSE s1,
                 sourcePath))

\* ensureThemeAssets
EnsureThemeAssets(s, templateThemePath) ==
    IF templateThemePath \in DOMAIN s.themeMap
    THEN Ret(s, s.themeMap[templateThemePath])
    ELSE IF templateThemePath \notin TemplateParts
    THEN Ret(Throw(s, "theme missing"), NoPath)
    ELSE LET newThemePath == ThemePath(s.nextThemeNumber)
         IN  Ret([EnsureContentType(
                      ZipFile([s EXCEPT !.nextThemeNumber = s.nextThemeNumber + 1],
                              newThemePath, templateThemePath),
                      newThemePath)
                    EXCEPT !.themeMap =
                        (templateThemePath :> newThemePath) @@ s.themeMap],
                 newThemePath)

\* the relationships of a cloned layout, one by one (copyLayoutFromMaster's map)
RECURSIVE LayoutRelsFold(_, _, _, _, _)
LayoutRelsFold(s, relItems, i, newMasterPath, acc) ==
    IF i > Len(relItems) \/ s.err # "" THEN [st |-> s, rels |-> acc]
    ELSE Bind(IF relItems[i].Type = REL_TYPES.slideMaster THEN Ret(s, newMasterPath)
              ELSE IF relItems[i].Type = REL_TYPES.image
                   THEN CopyMediaFile(s, relItems[i].Target)
                   ELSE CopyGenericPart(s, relItems[i].Target),
              LAMBDA r :
                  LayoutRelsFold(r.st, relItems, i + 1, newMasterPath,
                                 Append(acc, [relItems[i] EXCEPT !.Target = r.ret])))

\* copyLayoutFromMaster: memoized by source path
CopyLayoutFromMaster(s, templateLayoutPath, newMasterPath) ==
    IF templateLayoutPath \in DOMAIN s.layoutMap
    THEN Ret(s, s.layoutMap[templateLayoutPath])
    ELSE IF templateLayoutPath \notin TemplateParts
    THEN Ret(Throw(s, "layout missing"), NoPath)
    ELSE LET newLayoutPath == LayoutPath(s.nextLayoutNumber)
         IN  Bind(EnsureContentType(
                      ZipFile([s EXCEPT !.nextLayoutNumber = s.nextLayoutNumber + 1],
                              newLayoutPath, templateLayoutPath),
                      newLayoutPath),
             LAMBDA s2 :
             Bind(IF TemplateHasRels(templateLayoutPath)
                  THEN LayoutRelsFold(s2, TemplateRelsOf(templateLayoutPath), 1,
                                      newMasterPath, <<>>)
                  ELSE [st |-> s2, rels |-> <<>>],
             LAMBDA f :
             IF f.st.err # "" THEN Ret(f.st, NoPath)
             ELSE Bind(ZipRels(f.st, newLayoutPath, f.rels),
                  LAMBDA s3 :
                  Ret([s3 EXCEPT !.layoutMap =
                           (templateLayoutPath :> newLayoutPath) @@ s3.layoutMap],
                      newLayoutPath))))

\* the relationships of a cloned master, one by one (ensureMasterAssets's map)
RECURSIVE MasterRelsFold(_, _, _, _, _, _)
MasterRelsFold(s, relItems, i, newMasterPath, acc, themeInfo) ==
    IF i > Len(relItems) \/ s.err # ""
    THEN [st |-> s, rels |-> acc, themeInfo |-> themeInfo]
    ELSE Bind(IF relItems[i].Type = REL_TYPES.theme
              THEN EnsureThemeAssets(s, relItems[i].Target)
              ELSE IF relItems[i].Type = REL_TYPES.slideLayout
                   THEN CopyLayoutFromMaster(s, relItems[i].Target, newMasterPath)
                   ELSE CopyGenericPart(s, relItems[i].Target),
              LAMBDA r :
                  MasterRelsFold(r.st, relItems, i + 1, newMasterPath,
                                 Append(acc, [relItems[i] EXCEPT !.Target = r.ret]),
                                 IF relItems[i].Type = REL_TYPES.theme
                                 THEN r.ret ELSE themeInfo))

MasterInfo(newPath, themePath) == [newPath |-> newPath, themePath |-> themePath]

\* ensureMasterAssets with the master part written after its relationships
\* have been walked
EnsureMasterAssetsPartLast(s, templateMasterPath) ==
    IF templateMasterPath \in DOMAIN s.masterMap
    THEN Ret(s, s.masterMap[templateMasterPath].newPath)
    ELSE IF templateMasterPath \notin TemplateParts
    THEN Ret(Throw(s, "master missing"), NoPath)
    ELSE LET newMasterPath == MasterPath(s.nextMasterNumber)
         IN  Bind([s EXCEPT !.nextMasterNumber = s.nextMasterNumber + 1],
             LAMBDA s2 :
             Bind(IF TemplateHasRels(templateMasterPath)
                  THEN MasterRelsFold(s2, TemplateRelsOf(templateMasterPath), 1,
                                      newMasterPath, <<>>, NoPath)
                  ELSE [st |-> s2, rels |-> <<>>, themeInfo |-> NoPath],
             LAMBDA f :
             IF f.st.err # "" THEN Ret(f.st, NoPath)
             ELSE Bind(ZipRels(EnsureContentType(
                                   ZipFile(f.st, newMasterPath, templateMasterPath),
                                   newMasterPath),
                               newMasterPath, f.rels),
                  LAMBDA s3 :
                  Ret([s3 EXCEPT
                          !.masterMap =
                              (templateMasterPath :>
                                   MasterInfo(newMasterPath, f.themeInfo))
                              @@ s3.masterMap,
                          !.newMastersList =
                              Append(s3.newMastersList,
                                     MasterInfo(newMasterPath, f.themeInfo))],
                      newMasterPath))))

\* ensureMasterAssets: memoized by source path; clones the master, its theme
\* and every layout its relationships list
EnsureMasterAssets(s, templateMasterPath) ==
    IF templateMasterPath \in DOMAIN s.masterMap
    THEN Ret(s, s.masterMap[templateMasterPath].newPath)
    ELSE IF templateMasterPath \notin TemplateParts
    THEN Ret(Throw(s, "master missing"), NoPath)
    ELSE LET newMasterPath == MasterPath(s.nextMasterNumber)
         IN  Bind(EnsureContentType(
                      ZipFile([s EXCEPT !.nextMasterNumber = s.nextMasterNumber + 1],
                              newMasterPath, templateMasterPath),
                      newMasterPath),
             LAMBDA s2 :
             Bind(IF TemplateHasRels(templateMasterPath)
                  THEN MasterRelsFold(s2, TemplateRelsOf(templateMasterPath), 1,
                                      newMasterPath, <<>>, NoPath)
                  ELSE [st |-> s2, rels |-> <<>>, themeInfo |-> NoPath],
             LAMBDA f :
             IF f.st.err # "" THEN Ret(f.st, NoPath)
             ELSE Bind(ZipRels(f.st, newMasterPath, f.rels),
                  LAMBDA s3 :
                  Ret([s3 EXCEPT
                          !.masterMap =
                              (templateMasterPath :>
                                   MasterInfo(newMasterPath, f.themeInfo))
                              @@ s3.masterMap,
                          !.newMastersList =
                              Append(s3.newMastersList,
                                     MasterInfo(newMasterPath, f.themeInfo))],
                      newMasterPath))))

\* relItems.find(rel => rel.Type === slideMaster)
FindMasterRel(relItems) ==
    LET idx == {i \in 1..Len(relItems) : relItems[i].Type = REL_TYPES.slideMaster}
    IN  IF idx = {} THEN NoPath
        ELSE relItems[CHOOSE i \in idx : \A j \in idx : i <= j].Target

\* ensureLayoutAssets: the layout is cloned through its master
EnsureLayoutAssets(s, templateLayoutPath) ==
    IF templateLayoutPath \in DOMAIN s.layoutMap
    THEN Ret(s, s.layoutMap[templateLayoutPath])
    ELSE IF ~TemplateHasRels(templateLayoutPath)
    THEN Ret(Throw(s, "layout rels missing"), NoPath)
    ELSE IF FindMasterRel(TemplateRelsOf(templateLayoutPath)) = NoPath
    THEN Ret(Throw(s, "layout without master"), NoPath)
    ELSE Bind(EnsureMasterAssets(
                  s, FindMasterRel(TemplateRelsOf(templateLayoutPath))),
         LAMBDA m :
             IF m.st.err # "" THEN Ret(m.st, NoPath)
             ELSE IF templateLayoutPath \notin DOMAIN m.st.layoutMap
             THEN Ret(Throw(m.st, "layout not copied"), NoPath)
             ELSE Ret(m.st, m.st.layoutMap[templateLayoutPath]))

\* the mediaMap key `slide${n}_main` of the image injected into slide n
MainKey(slideNumber) == P("mapKey", slideNumber, "main")

\* the relationships of a copied slide, one by one (cloneSlideRelationships's map)
RECURSIVE SlideRelsFold(_, _, _, _, _)
SlideRelsFold(s, relItems, i, newSlideNumber, acc) ==
    IF i > Len(relItems) \/ s.err # "" THEN [st |-> s, rels |-> acc]
    ELSE Bind(IF relItems[i].Type = REL_TYPES.slideLayout
              THEN EnsureLayoutAssets(s, relItems[i].Target)
              ELSE IF relItems[i].Type = REL_TYPES.image
                   THEN IF MainKey(newSlideNumber) \in DOMAIN s.mediaMap
                        THEN Ret(s, s.mediaMap[MainKey(newSlideNumber)])
                        ELSE CopyMediaFile(s, relItems[i].Target)
                   ELSE CopyGenericPart(s, relItems[i].Target),
              LAMBDA r :
                  SlideRelsFold(r.st, relItems, i + 1, newSlideNumber,
                                Append(acc, [relItems[i] EXCEPT !.Target = r.ret])))

\* cloneSlideRelationships
CloneSlideRelationships(s, templateSlideNumber, newSlideNumber) ==
    IF ~TemplateHasRels(SlidePath(templateSlideNumber))
    THEN ZipRels(s, SlidePath(newSlideNumber), <<>>)
    ELSE Bind(SlideRelsFold(s, TemplateRelsOf(SlidePath(templateSlideNumber)), 1,
                            newSlideNumber, <<>>),
         LAMBDA f :
             IF f.st.err # "" THEN f.st
             ELSE ZipRels(f.st, SlidePath(newSlideNumber), f.rels))

NewSlide(slideNumber, position) ==
    [slideNumber |-> slideNumber, position |-> position, slideId |-> 0, relId |-> 0]

\* copyTemplateSlide with the slide number taken before the look-up
CopyTemplateSlideNumberFirst(s, templateSlideNumber, position) ==
    IF SlidePath(templateSlideNumber) \notin TemplateParts
    THEN [s EXCEPT !.warns = s.warns \cup {SlidePath(templateSlideNumber)},
                   !.nextSlideNumber = s.nextSlideNumber + 1]
    ELSE Bind(ZipFile([s EXCEPT !.nextSlideNumber = s.nextSlideNumber + 1],
                      SlidePath(s.nextSlideNumber), SlidePath(templateSlideNumber)),
         LAMBDA s1 :
         Bind(CloneSlideRelationships(s1, templateSlideNumber, s.nextSlideNumber),
         LAMBDA s2 :
             IF s2.err # "" THEN s2
             ELSE Bind(EnsureContentType(s2, SlidePath(s.nextSlideNumber)),
                  LAMBDA s3 :
                      [s3 EXCEPT !.newSlides =
                           Append(s3.newSlides,
                                  NewSlide(s.nextSlideNumber, position))])))

\* copyTemplateSlide: an absent template page is skipped with a warning
CopyTemplateSlide(s, templateSlideNumber, position) ==
    IF SlidePath(templateSlideNumber) \notin TemplateParts
    THEN [s EXCEPT !.warns = s.warns \cup {SlidePath(templateSlideNumber)}]
    ELSE Bind(ZipFile([s EXCEPT !.nextSlideNumber = s.nextSlideNumber + 1],
                      SlidePath(s.nextSlideNumber), SlidePath(templateSlideNumber)),
         LAMBDA s1 :
         Bind(CloneSlideRelationships(s1, templateSlideNumber, s.nextSlideNumber),
         LAMBDA s2 :
             IF s2.err # "" THEN s2
             ELSE Bind(EnsureContentType(s2, SlidePath(s.nextSlideNumber)),
                  LAMBDA s3 :
                      [s3 EXCEPT !.newSlides =
                           Append(s3.newSlides,
                                  NewSlide(s.nextSlideNumber, position))])))

\* ---------------------------------------------------------- image injection

\* An image item: its extension (from the data URI's MIME type or from the
\* file name) and whether its bytes can be read (fs.readFileSync may throw).
Image(ext, readable) == [ext |-> ext, readable |-> readable]

ImageKinds == {Image("png", TRUE), Image("jpg", TRUE), Image("png", FALSE)}

\* the bytes of the idx-th image of a call
Payload(idx, ext) == P("payload", idx, ext)

\* replaceImagePlaceholder: the media number is taken and the <Default>
\* registered before the bytes are read; a failed read is caught and warned
ReplaceImagePlaceholder(s, image, idx, slideNumber) ==
    LET newImagePath == P("image_", s.mediaCounter, image.ext)
    IN  Bind(EnsureDefaultContentType(
                 [s EXCEPT !.mediaCounter = s.mediaCounter + 1], image.ext),
        LAMBDA s1 :
            IF ~image.readable
            THEN [s1 EXCEPT !.warns = s1.warns \cup {newImagePath}]
            ELSE Bind(ZipFile(s1, newImagePath, Payload(idx, image.ext)),
                 LAMBDA s2 :
                     [s2 EXCEPT !.mediaMap =
                          (MainKey(slideNumber) :> newImagePath) @@ s2.mediaMap]))

\* the loop of insertImageSlidesByCategory: one copy of the category's
\* template page per image
RECURSIVE ImageSlidesLoop(_, _, _, _)
ImageSlidesLoop(s, images, idx, templateSlideNumber) ==
    IF idx > Len(images) \/ s.err # "" THEN s
    ELSE IF SlidePath(templateSlideNumber) \notin TemplateParts
    THEN Bind([s EXCEPT !.warns = s.warns \cup {SlidePath(templateSlideNumber)}],
         LAMBDA s1 : ImageSlidesLoop(s1, images, idx + 1, templateSlideNumber))
    ELSE Bind(ReplaceImagePlaceholder(
                  [s EXCEPT !.nextSlideNumber = s.nextSlideNumber + 1],
                  images[idx], idx, s.nextSlideNumber),
         LAMBDA s1 :
         Bind(ZipFile(s1, SlidePath(s.nextSlideNumber),
                      SlidePath(templateSlideNumber)),
         LAMBDA s2 :
         Bind(CloneSlideRelationships(s2, templateSlideNumber, s.nextSlideNumber),
         LAMBDA s3 :
             IF s3.err # "" THEN s3
             ELSE Bind(EnsureContentType(s3, SlidePath(s.nextSlideNumber)),
                  LAMBDA s4 :
                  Bind([s4 EXCEPT !.newSlides =
                            Append(s4.newSlides,
                                   NewSlide(s.nextSlideNumber, "middle"))],
                  LAMBDA s5 :
                      ImageSlidesLoop(s5, images, idx + 1, templateSlideNumber))))))

\* ---------------------------------------------------------------- finalize

\* slide ids stay above this value
MinSlideId == 256

Max2(a, b) == IF a >= b THEN a ELSE b

\* a slide id handed out without looking at the ids in use
SlideIdUnchecked(s) == s.nextSlideId

\* buildSlideEntries' first while loop: the next slide id above 256 not in use
SlideIdFor(s) == FirstFree(Max2(s.nextSlideId, MinSlideId + 1), s.existingSlideIds)

\* buildSlideEntries' second while loop: the next relationship id not in use
SlideRelIdFor(s) == FirstFree(s.nextRelId, s.existingRelIds)

\* the map of buildSlideEntries: a slide id and a relationship id per new slide
RECURSIVE AssignSlideIds(_, _, _)
AssignSlideIds(s, i, acc) ==
    IF i > Len(s.newSlides) THEN [st |-> s, slides |-> acc]
    ELSE Bind(<<SlideIdFor(s), SlideRelIdFor(s)>>,
         LAMBDA id :
         Bind([s EXCEPT !.existingSlideIds = s.existingSlideIds \cup {id[1]},
                        !.nextSlideId = id[1] + 1,
                        !.existingRelIds = s.existingRelIds \cup {id[2]},
                        !.nextRelId = id[2] + 1],
         LAMBDA s1 :
             AssignSlideIds(s1, i + 1,
                            Append(acc, [s.newSlides[i] EXCEPT !.slideId = id[1],
                                                               !.relId = id[2]]))))

EntryFor(slide) == SldId(slide.slideId, slide.relId)

MapEntries(slides) == [i \in 1..Len(slides) |-> EntryFor(slides[i])]

\* buildSlideEntries as src/src/templateSlides.js writes the list: start,
\* existing, end
BuildSlideEntriesStartEnd(existingEntries, s) ==
    LET IsStart(x) == x.position = "start"
        IsEnd(x) == x.position = "end"
    IN  Bind(AssignSlideIds(s, 1, <<>>),
        LAMBDA a :
            [st |-> [a.st EXCEPT !.newSlides = a.slides],
             xml |-> MapEntries(SelectSeq(a.slides, IsStart)) \o existingEntries
                     \o MapEntries(SelectSeq(a.slides, IsEnd))])

\* buildSlideEntries with every new slide put before the existing entries
BuildSlideEntriesNewFirst(existingEntries, s) ==
    Bind(AssignSlideIds(s, 1, <<>>),
    LAMBDA a :
        [st |-> [a.st EXCEPT !.newSlides = a.slides],
         xml |-> MapEntries(a.slides) \o existingEntries])

\* buildSlideEntries: start, existing, middle, end
BuildSlideEntries(existingEntries, s) ==
    LET IsStart(x) == x.position = "start"
        IsMiddle(x) == x.position = "middle"
        IsEnd(x) == x.position = "end"
    IN  Bind(AssignSlideIds(s, 1, <<>>),
        LAMBDA a :
            [st |-> [a.st EXCEPT !.newSlides = a.slides],
             xml |-> MapEntries(SelectSeq(a.slides, IsStart)) \o existingEntries
                     \o MapEntries(SelectSeq(a.slides, IsMiddle))
                     \o MapEntries(SelectSeq(a.slides, IsEnd))])

\* appendSlideRelationships: one slide relationship per new slide, before
\* </Relationships>
AppendSlideRelationships(relsContent, s) ==
    relsContent \o [i \in 1..Len(s.newSlides) |->
                       PresRel(s.newSlides[i].relId, REL_TYPES.slide,
                               SlidePath(s.newSlides[i].slideNumber))]

\* appendMasterEntries' first while loop: the next master id not in use
MasterIdFor(s) == FirstFree(s.nextMasterId, s.existingMasterIds)

\* a master's relationship id handed out as `state.nextRelId += 1`, without
\* looking at the ids in use
MasterRelIdUnchecked(s) == s.nextRelId + 1

\* appendMasterEntries' second while loop: the next relationship id not in use
MasterRelIdFor(s) == FirstFree(s.nextRelId, s.existingRelIds)

\* the loop of appendMasterEntries: a master id and a relationship id per
\* master cloned in this call
RECURSIVE AssignMasterIds(_, _, _, _)
AssignMasterIds(s, i, entries, rs) ==
    IF i > Len(s.newMastersList) THEN [st |-> s, entries |-> entries, rels |-> rs]
    ELSE Bind(<<MasterIdFor(s), MasterRelIdFor(s)>>,
         LAMBDA id :
         Bind([s EXCEPT !.existingMasterIds = s.existingMasterIds \cup {id[1]},
                        !.existingRelIds = s.existingRelIds \cup {id[2]},
                        !.nextMasterId = id[1] + 1,
                        !.nextRelId = id[2] + 1],
         LAMBDA s1 :
             AssignMasterIds(s1, i + 1,
                             Append(entries, SldId(id[1], id[2])),
                             Append(rs, PresRel(id[2], REL_TYPES.slideMaster,
                                                s.newMastersList[i].newPath)))))

\* appendMasterEntries with the list rebuilt from the new entries only
AppendMasterEntriesReplacing(s) ==
    IF s.newMastersList = <<>> THEN s
    ELSE Bind(AssignMasterIds(s, 1, <<>>, <<>>),
         LAMBDA a :
             [a.st EXCEPT !.sldMasterIdLst = a.entries,
                          !.presRels = s.presRels \o a.rels])

\* appendMasterEntries
AppendMasterEntries(s) ==
    IF s.newMastersList = <<>> THEN s
    ELSE Bind(AssignMasterIds(s, 1, <<>>, <<>>),
         LAMBDA a :
             [a.st EXCEPT !.sldMasterIdLst = s.sldMasterIdLst \o a.entries,
                          !.presRels = s.presRels \o a.rels])

RECURSIVE EnsureContentTypes(_, _)
EnsureContentTypes(s, partNames) ==
    IF partNames = <<>> THEN s
    ELSE Bind(EnsureContentType(s, Head(partNames)),
         LAMBDA s1 : EnsureContentTypes(s1, Tail(partNames)))

\* a set as a sequence, in some order (the iteration order of a Map does not
\* matter to ensureContentType)
RECURSIVE SetToSeq(_)
SetToSeq(S) ==
    IF S = {} THEN <<>>
    ELSE Bind(CHOOSE y \in S : TRUE, LAMBDA x : <<x>> \o SetToSeq(S \ {x}))

\* the clones this call made, for the final ensureContentType loops
ClonedParts(s) ==
    [i \in 1..Len(s.newSlides) |-> SlidePath(s.newSlides[i].slideNumber)]
    \o SetToSeq({s.layoutMap[k] : k \in DOMAIN s.layoutMap})
    \o SetToSeq({s.masterMap[k].newPath : k \in DOMAIN s.masterMap})
    \o SetToSeq({s.themeMap[k] : k \in DOMAIN s.themeMap})

\* updatePresentationDocuments.  finalSlides keeps the records of the slides
\* this call numbered (the code clears newSlides at the end).
UpdatePresentationDocuments(s) ==
    IF s.newSlides = <<>> THEN s
    ELSE Bind(BuildSlideEntries(s.sldIdLst, s),
         LAMBDA b :
         Bind([b.st EXCEPT !.sldIdLst = b.xml,
                           !.presRels = AppendSlideRelationships(b.st.presRels, b.st)],
         LAMBDA s2 :
         Bind(AppendMasterEntries(s2),
         LAMBDA s3 :
         Bind(EnsureContentTypes(s3, ClonedParts(s3)),
         LAMBDA s7 :
             [s7 EXCEPT !.finalSlides = s7.newSlides, !.newSlides = <<>>]))))

\* ------------------------------------------------------------- insert calls

\* insertTemplateSlide up to the point where the output file is written
InsertTemplateSlide(pkg, templateSlideNumber, position) ==
    Bind(InitializeState(pkg),
    LAMBDA s0 :
        IF s0.err # "" THEN s0
        ELSE Bind(CopyTemplateSlide(s0, templateSlideNumber, position),
             LAMBDA s1 :
                 IF s1.err # "" \/ s1.newSlides = <<>> THEN s1
                 ELSE UpdatePresentationDocuments(s1)))

\* insertImageSlidesByCategory, for the images of the category
InsertImageSlidesByCategory(pkg, images, templateSlideNumber) ==
    Bind(InitializeState(pkg),
    LAMBDA s0 :
        IF s0.err # "" THEN s0
        ELSE Bind(ImageSlidesLoop(s0, images, 1, templateSlideNumber),
             LAMBDA s1 :
                 IF s1.err # "" \/ s1.newSlides = <<>> THEN s1
                 ELSE UpdatePresentationDocuments(s1)))

\* ------------------------- the image pages of src/src/templateSlides.js

\* the counters initializeState of templateSlides.js starts from when the
\* package holds no id
SlideIdOrigin == 256

RelIdOrigin == 10

MasterIdOriginOfTemplateSlides == 100

\* initializeState of templateSlides.js: the id counters start at the
\* highest id in use and are raised before each use
InitializeStateOfTemplateSlides(pkg) ==
    LET slideIds == {pkg.sldIdLst[i].id : i \in 1..Len(pkg.sldIdLst)}
        relIds == {pkg.presRels[i].rid : i \in 1..Len(pkg.presRels)}
        masterIds == {pkg.sldMasterIdLst[i].id : i \in 1..Len(pkg.sldMasterIdLst)}
    IN  [InitializeState(pkg) EXCEPT
            !.nextSlideId = IF slideIds = {} THEN SlideIdOrigin ELSE MaxOf(slideIds),
            !.nextRelId = IF relIds = {} THEN RelIdOrigin ELSE MaxOf(relIds),
            !.nextMasterId = IF masterIds = {} THEN MasterIdOriginOfTemplateSlides
                             ELSE MaxOf(masterIds)]

\* image.fullPath of the idx-th image of a call
FullPath(idx, ext) == P("fullPath", idx, ext)

\* replaceImagePlaceholder of templateSlides.js: the bytes are read outside
\* any try, the mapping is kept under the image's own path
ReplaceImagePlaceholderOfTemplateSlides(s, image, idx) ==
    LET newImagePath == P("image_", s.mediaCounter, image.ext)
    IN  IF ~image.readable
        THEN Throw([s EXCEPT !.mediaCounter = s.mediaCounter + 1], "image unreadable")
        ELSE Bind(ZipFile([s EXCEPT !.mediaCounter = s.mediaCounter + 1],
                          newImagePath, Payload(idx, image.ext)),
             LAMBDA s1 :
                 [s1 EXCEPT !.mediaMap =
                      (FullPath(idx, image.ext) :> newImagePath) @@ s1.mediaMap])

\* Array.from(state.mediaMap.values())[mediaFiles.length - 1]: the value of
\* the key set last.  Every key is set once, right after its value was
\* written to the package under a new media number, so it is the value
\* written last.
NewestMedia(s) ==
    LET mediaFiles == {s.mediaMap[k] : k \in DOMAIN s.mediaMap}
    IN  s.log[MaxOf({i \in 1..Len(s.log) : s.log[i] \in mediaFiles})]

\* the relationships of a copied slide, one by one (the map of
\* cloneSlideRelationships of templateSlides.js)
RECURSIVE SlideRelsFoldOfTemplateSlides(_, _, _, _, _)
SlideRelsFoldOfTemplateSlides(s, relItems, i, newSlideNumber, acc) ==
    IF i > Len(relItems) \/ s.err # "" THEN [st |-> s, rels |-> acc]
    ELSE Bind(IF relItems[i].Type = REL_TYPES.slideLayout
              THEN EnsureLayoutAssets(s, relItems[i].Target)
              ELSE IF relItems[i].Type = REL_TYPES.image
                   THEN IF DOMAIN s.mediaMap # {}
                        THEN Ret(s, NewestMedia(s))
                        ELSE CopyMediaFileOfTemplateSlides(s, relItems[i].Target)
                   ELSE CopyGenericPart(s, relItems[i].Target),
              LAMBDA r :
                  SlideRelsFoldOfTemplateSlides(
                      r.st, relItems, i + 1, newSlideNumber,
                      Append(acc, [relItems[i] EXCEPT !.Target = r.ret])))

\* cloneSlideRelationships of templateSlides.js
CloneSlideRelationshipsOfTemplateSlides(s, templateSlideNumber, newSlideNumber) ==
    IF ~TemplateHasRels(SlidePath(templateSlideNumber))
    THEN ZipRels(s, SlidePath(newSlideNumber), <<>>)
    ELSE Bind(SlideRelsFoldOfTemplateSlides(
                  s, TemplateRelsOf(SlidePath(templateSlideNumber)), 1,
                  newSlideNumber, <<>>),
         LAMBDA f :
             IF f.st.err # "" THEN f.st
             ELSE ZipRels(f.st, SlidePath(newSlideNumber), f.rels))

\* the loop of copyTemplateSecondPageForImages: one copy of template page 2
\* per image, at the start
RECURSIVE SecondPageLoop(_, _, _)
SecondPageLoop(s, images, idx) ==
    IF idx > Len(images) \/ s.err # "" THEN s
    ELSE IF SlidePath(2) \notin TemplateParts
    THEN Bind([s EXCEPT !.warns = s.warns \cup {SlidePath(2)}],
         LAMBDA s1 : SecondPageLoop(s1, images, idx + 1))
    ELSE Bind(ReplaceImagePlaceholderOfTemplateSlides(
                  [s EXCEPT !.nextSlideNumber = s.nextSlideNumber + 1],
                  images[idx], idx),
         LAMBDA s1 :
         IF s1.err # "" THEN s1
         ELSE Bind(ZipFile(s1, SlidePath(s.nextSlideNumber), SlidePath(2)),
         LAMBDA s2 :
         Bind(CloneSlideRelationshipsOfTemplateSlides(s2, 2, s.nextSlideNumber),
         LAMBDA s3 :
             IF s3.err # "" THEN s3
             ELSE Bind(EnsureContentType(s3, SlidePath(s.nextSlideNumber)),
                  LAMBDA s4 :
                  Bind([s4 EXCEPT !.newSlides =
                            Append(s4.newSlides,
                                   NewSlide(s.nextSlideNumber, "start"))],
                  LAMBDA s5 : SecondPageLoop(s5, images, idx + 1))))))

\* the map of buildSlideEntries of templateSlides.js: both counters are
\* raised by one, then used
RECURSIVE AssignSlideIdsOfTemplateSlides(_, _, _)
AssignSlideIdsOfTemplateSlides(s, i, acc) ==
    IF i > Len(s.newSlides) THEN [st |-> s, slides |-> acc]
    ELSE Bind([s EXCEPT !.nextSlideId = s.nextSlideId + 1,
                        !.nextRelId = s.nextRelId + 1],
         LAMBDA s1 :
             AssignSlideIdsOfTemplateSlides(
                 s1, i + 1,
                 Append(acc, [s.newSlides[i] EXCEPT !.slideId = s1.nextSlideId,
                                                    !.relId = s1.nextRelId])))

\* buildSlideEntries of templateSlides.js: start, existing, end
BuildSlideEntriesOfTemplateSlides(existingEntries, s) ==
    LET IsStart(x) == x.position = "start"
        IsEnd(x) == x.position = "end"
    IN  Bind(AssignSlideIdsOfTemplateSlides(s, 1, <<>>),
        LAMBDA a :
            [st |-> [a.st EXCEPT !.newSlides = a.slides],
             xml |-> MapEntries(SelectSeq(a.slides, IsStart)) \o existingEntries
                     \o MapEntries(SelectSeq(a.slides, IsEnd))])

\* the loop of appendMasterEntries of templateSlides.js
RECURSIVE AssignMasterIdsOfTemplateSlides(_, _, _, _)
AssignMasterIdsOfTemplateSlides(s, i, entries, rs) ==
    IF i > Len(s.newMastersList) THEN [st |-> s, entries |-> entries, rels |-> rs]
    ELSE Bind([s EXCEPT !.nextMasterId = s.nextMasterId + 1,
                        !.nextRelId = s.nextRelId + 1],
         LAMBDA s1 :
             AssignMasterIdsOfTemplateSlides(
                 s1, i + 1,
                 Append(entries, SldId(s1.nextMasterId, s1.nextRelId)),
                 Append(rs, PresRel(s1.nextRelId, REL_TYPES.slideMaster,
                                    s.newMastersList[i].newPath))))

\* appendMasterEntries of templateSlides.js
AppendMasterEntriesOfTemplateSlides(s) ==
    IF s.newMastersList = <<>> THEN s
    ELSE Bind(AssignMasterIdsOfTemplateSlides(s, 1, <<>>, <<>>),
         LAMBDA a :
             [a.st EXCEPT !.sldMasterIdLst = s.sldMasterIdLst \o a.entries,
                          !.presRels = s.presRels \o a.rels])

\* updatePresentationDocuments of templateSlides.js
UpdatePresentationDocumentsOfTemplateSlides(s) ==
    Bind(BuildSlideEntriesOfTemplateSlides(s.sldIdLst, s),
    LAMBDA b :
    Bind([b.st EXCEPT !.sldIdLst = b.xml,
                      !.presRels = AppendSlideRelationships(b.st.presRels, b.st)],
    LAMBDA s2 :
    Bind(AppendMasterEntriesOfTemplateSlides(s2),
    LAMBDA s3 : [s3 EXCEPT !.finalSlides = s3.newSlides])))

\* copyTemplateSecondPageForImages up to the point where the output file is
\* written
CopyTemplateSecondPageForImages(pkg, images) ==
    Bind(InitializeStateOfTemplateSlides(pkg),
    LAMBDA s0 :
        IF s0.err # "" THEN s0
        ELSE Bind(SecondPageLoop(s0, images, 1),
             LAMBDA s1 :
                 IF s1.err # "" \/ s1.newSlides = <<>> THEN s1
                 ELSE UpdatePresentationDocumentsOfTemplateSlides(s1)))

\* fs.writeFile(outputPath, ...) reached whatever was thrown
RewrittenAlways(s) == s.finalSlides # <<>> \/ s.err # ""

\* the call reached fs.writeFile(outputPath, ...)
Rewritten(s) == s.err = "" /\ s.finalSlides # <<>>

\* the template page of each image category (processEmployee)
CategorySlide(category) ==
    CASE category = "inbody" -> 2
      [] category = "lab" -> 3
      [] category = "ecg" -> 4
      [] category = "ai" -> 5

Op(name, slide, position, images) ==
    [name |-> name, slide |-> slide, position |-> position, images |-> images]

\* the images of one call: count images of one kind
Images(count, kind) == [i \in 1..count |-> kind]

\* ------------------------------------------------- the PDF conversion queue

MAX_CONCURRENT_PDF_CONVERSIONS == 1

MAX_RETRIES == 2

\* new PdfConversionQueue(maxConcurrency).  queue holds the tasks waiting,
\* active the tasks whose task() was called and has not settled, retry the
\* retryCount of each task not yet settled, immediates the setImmediate
\* callbacks not yet run.
PdfConversionQueue(maxConcurrency) ==
    [maxConcurrency |-> maxConcurrency, running |-> 0, queue |-> <<>>,
     active |-> {}, retry |-> <<>>, immediates |-> 0]

\* process() with the test of running left out
ProcessUnlimited(q) ==
    IF q.queue = <<>> THEN q
    ELSE [q EXCEPT !.queue = Tail(q.queue),
                   !.running = q.running + 1,
                   !.active = q.active \cup {Head(q.queue)}]

\* process(), up to its await: takes the head of the queue and calls it
Process(q) ==
    IF q.running >= q.maxConcurrency \/ q.queue = <<>> THEN q
    ELSE [q EXCEPT !.queue = Tail(q.queue),
                   !.running = q.running + 1,
                   !.active = q.active \cup {Head(q.queue)}]

\* add(task)
Add(q, task) ==
    Bind([q EXCEPT !.queue = Append(q.queue, task),
                   !.retry = (task :> 0) @@ q.retry],
    LAMBDA q1 : Process(q1))

\* _convertPptxToPdfInternal calls itself with retryCount + 1
Retry(q, task) == [q EXCEPT !.retry[task] = q.retry[task] + 1]

\* the finally block of process() without the call of setImmediate
SettleNoImmediate(q, task) ==
    [q EXCEPT !.active = q.active \ {task},
              !.retry = [t \in DOMAIN q.retry \ {task} |-> q.retry[t]],
              !.running = q.running - 1]

\* process() after its await: the task has settled, resolve or reject is
\* called, and the finally block runs
Settle(q, task) ==
    [q EXCEPT !.active = q.active \ {task},
              !.retry = [t \in DOMAIN q.retry \ {task} |-> q.retry[t]],
              !.running = q.running - 1,
              !.immediates = q.immediates + 1]

\* the callback given to setImmediate
Immediate(q) ==
    Bind([q EXCEPT !.immediates = q.immediates - 1],
    LAMBDA q1 : Process(q1))

\* no batch is running
NoBatch == [main |-> "none"]

\* one insert call, from reading the output file to writing it back
Call(s, o) ==
    /\ st' = s
    /\ pre' = disk
    /\ disk' = IF Rewritten(st') THEN PackageOf(st') ELSE disk
    /\ op' = o
    /\ calls' = calls + 1
    /\ UNCHANGED <<cfg, batch, pdf>>

\* the switches at the head of merged.js, as shipped
DefaultConfig == [has6WhitePage |-> FALSE]

Init ==
    /\ disk \in InitialDecks
    /\ pre = disk
    /\ st = InitializeState(disk)
    /\ op = Op("none", 0, "", <<>>)
    /\ calls = 0
    /\ pc = "free"
    /\ cfg = DefaultConfig
    /\ batch = NoBatch
    /\ pdf = PdfConversionQueue(MAX_CONCURRENT_PDF_CONVERSIONS)

InsertCoverSlide ==
    /\ pc = "free" /\ calls < MaxCalls
    /\ Call(InsertTemplateSlide(disk, 1, "start"),
            Op("insertCoverSlide", 1, "start", <<>>))
    /\ UNCHANGED pc

InsertTextGuidanceSlide ==
    /\ pc = "free" /\ calls < MaxCalls
    /\ Call(InsertTemplateSlide(disk, 6, "middle"),
            Op("insertTextGuidanceSlide", 6, "middle", <<>>))
    /\ UNCHANGED pc

InsertSummarySlides ==
    /\ pc = "free" /\ calls < MaxCalls
    /\ Call(InsertTemplateSlide(disk, 7, "end"),
            Op("insertSummarySlides", 7, "end", <<>>))
    /\ UNCHANGED pc

InsertImageSlides ==
    /\ pc = "free" /\ calls < MaxCalls
    /\ \E category \in {"inbody", "lab", "ecg", "ai"}, count \in 1..MaxImages,
          kind \in ImageKinds :
          Call(InsertImageSlidesByCategory(disk, Images(count, kind),
                                           CategorySlide(category)),
               Op("insertImageSlidesByCategory", CategorySlide(category),
                  "middle", Images(count, kind)))
    /\ UNCHANGED pc

\* insertTemplateSlide for a page with a damaged layout
InsertDamagedPage ==
    /\ pc = "free" /\ calls < MaxCalls
    /\ \E n \in {8, 9}, position \in {"start", "end"} :
          Call(InsertTemplateSlide(disk, n, position),
               Op("insertTemplateSlide", n, position, <<>>))
    /\ UNCHANGED pc

\* insertTemplateSlide for a page the template does not have
InsertAbsentPage ==
    /\ pc = "free" /\ calls < MaxCalls
    /\ \E position \in {"start", "middle", "end"} :
          Call(InsertTemplateSlide(disk, 5, position),
               Op("insertTemplateSlide", 5, position, <<>>))
    /\ UNCHANGED pc

Next ==
    \/ InsertAbsentPage
    \/ InsertDamagedPage
    \/ InsertCoverSlide
    \/ InsertTextGuidanceSlide
    \/ InsertSummarySlides
    \/ InsertImageSlides

Spec == Init /\ [][Next]_vars

\* --------------------------------- the image pages, in both builds

SecondPageForImages ==
    /\ pc = "free" /\ calls < MaxCalls
    /\ \E count \in 1..MaxImages, kind \in ImageKinds :
          Call(CopyTemplateSecondPageForImages(disk, Images(count, kind)),
               Op("copyTemplateSecondPageForImages", 2, "start",
                  Images(count, kind)))
    /\ UNCHANGED pc

NextImages ==
    \/ InsertImageSlides
    \/ SecondPageForImages

SpecImages == Init /\ [][NextImages]_vars

\* ------------------------------------------- buildSlideEntries on its own

Positions == {"start", "middle", "end"}

\* the records copyTemplateSlide pushed: slide numbers in injection order
PendingSlides(s, positions) ==
    [i \in 1..Len(positions) |-> NewSlide(s.nextSlideNumber + i - 1, positions[i])]

PositionLists == UNION {[1..n -> Positions] : n \in 0..MaxPending}

InitBuild ==
    /\ disk \in InitialDecks
    /\ pre = disk
    /\ \E positions \in PositionLists :
          st = [InitializeState(disk) EXCEPT
                   !.newSlides = PendingSlides(InitializeState(disk), positions)]
    /\ op = Op("none", 0, "", <<>>)
    /\ calls = 0
    /\ pc = "build"
    /\ cfg = DefaultConfig
    /\ batch = NoBatch
    /\ pdf = PdfConversionQueue(MAX_CONCURRENT_PDF_CONVERSIONS)

\* buildSlideEntries(extractExistingSlideEntries(presContent), state), and
\* the list it returns put in place of <p:sldIdLst>
BuildEntries ==
    /\ pc = "build"
    /\ \E b \in {BuildSlideEntries(disk.sldIdLst, st)} :
          /\ st' = b.st
          /\ disk' = [disk EXCEPT !.sldIdLst = b.xml]
    /\ pre' = disk
    /\ op' = Op("buildSlideEntries", 0, "", <<>>)
    /\ calls' = calls + 1
    /\ pc' = "built"
    /\ UNCHANGED <<cfg, batch, pdf>>

NextBuild == BuildEntries

SpecBuild == InitBuild /\ [][NextBuild]_vars

\* ------------------------------------- clone requests on one injection state

\* the template sources a relationship of each kind can name
MediaSources ==
    {P("image", 1, "emf"), P("image", 2, "png"), P("image", 3, "emf"),
     P("image", 9, "png")}

LayoutSources == {LayoutPath(1), LayoutPath(2), LayoutPath(3)}

MasterSources == {MasterPath(1), MasterPath(2)}

ThemeSources == {ThemePath(1)}

\* the parts written so far in this state that are copies of the source
ClonesOf(s, sourcePath) ==
    {p \in SeqToSet(s.log) : p \in DOMAIN s.zip /\ s.zip[p] = sourcePath}

\* a clone request: what was asked, what came back, and whether the source
\* had a copy in the package when it was asked
Request(name, sourcePath, r, s) ==
    [name |-> name, source |-> sourcePath, ret |-> r.ret,
     again |-> ClonesOf(s, sourcePath) # {}]

Clone(name, sourcePath, r) ==
    /\ st' = r.st
    /\ op' = Request(name, sourcePath, r, st)
    /\ calls' = calls + 1
    /\ UNCHANGED <<disk, pre, pc, cfg, batch, pdf>>

InitClone ==
    /\ disk \in InitialDecks
    /\ pre = disk
    /\ st = InitializeState(disk)
    /\ op = [name |-> "none", source |-> NoPath, ret |-> NoPath, again |-> FALSE]
    /\ calls = 0
    /\ pc = "clone"
    /\ cfg = DefaultConfig
    /\ batch = NoBatch
    /\ pdf = PdfConversionQueue(MAX_CONCURRENT_PDF_CONVERSIONS)

CloneMedia ==
    /\ pc = "clone" /\ calls < MaxClones /\ st.err = ""
    /\ \E sourcePath \in MediaSources :
       \E r \in {CopyMediaFile(st, sourcePath)} :
          Clone("copyMediaFile", sourcePath, r)

CloneMediaOfTemplateSlides ==
    /\ pc = "clone" /\ calls < MaxClones /\ st.err = ""
    /\ \E sourcePath \in MediaSources :
       \E r \in {CopyMediaFileOfTemplateSlides(st, sourcePath)} :
          Clone("copyMediaFile of templateSlides.js", sourcePath, r)

CloneLayout ==
    /\ pc = "clone" /\ calls < MaxClones /\ st.err = ""
    /\ \E sourcePath \in LayoutSources :
       \E r \in {EnsureLayoutAssets(st, sourcePath)} :
          Clone("ensureLayoutAssets", sourcePath, r)

CloneMaster ==
    /\ pc = "clone" /\ calls < MaxClones /\ st.err = ""
    /\ \E sourcePath \in MasterSources :
       \E r \in {EnsureMasterAssets(st, sourcePath)} :
          Clone("ensureMasterAssets", sourcePath, r)

CloneTheme ==
    /\ pc = "clone" /\ calls < MaxClones /\ st.err = ""
    /\ \E sourcePath \in ThemeSources :
       \E r \in {EnsureThemeAssets(st, sourcePath)} :
          Clone("ensureThemeAssets", sourcePath, r)

NextClone ==
    \/ CloneMediaOfTemplateSlides
    \/ CloneMedia
    \/ CloneLayout
    \/ CloneMaster
    \/ CloneTheme

SpecClone == InitClone /\ [][NextClone]_vars

\* ------------------------------------------------------------ processEmployee

\* The insert calls processEmployee makes on one employee's package, in its
\* order: cover, inbody, lab, ecg, ai, the guidance page when has6WhitePage is
\* set, the closing page.  The employee's images of each category are chosen
\* when the category's call is made.

ImageCategories == <<"inbody", "lab", "ecg", "ai">>

\* the call after the image category's
AfterCategory(category) ==
    CASE category = "inbody" -> "lab"
      [] category = "lab" -> "ecg"
      [] category = "ecg" -> "ai"
      [] category = "ai" -> IF cfg.has6WhitePage THEN "guidance" ELSE "closing"

\* a thrown error ends processEmployee
Then(next) == pc' = IF st'.err # "" THEN "failed" ELSE next

InitEmployee ==
    /\ disk = FreshDeck
    /\ pre = disk
    /\ st = InitializeState(disk)
    /\ op = Op("none", 0, "", <<>>)
    /\ calls = 0
    /\ pc = "cover"
    /\ cfg \in [has6WhitePage : BOOLEAN]
    /\ batch = NoBatch
    /\ pdf = PdfConversionQueue(MAX_CONCURRENT_PDF_CONVERSIONS)

EmployeeCover ==
    /\ pc = "cover"
    /\ Call(InsertTemplateSlide(disk, 1, "start"),
            Op("insertCoverSlide", 1, "start", <<>>))
    /\ Then("inbody")

\* insertImageSlidesByCategory returns at once when the employee has no
\* image of the category
EmployeeNoImages ==
    /\ pc \in SeqToSet(ImageCategories)
    /\ pc' = AfterCategory(pc)
    /\ UNCHANGED <<disk, pre, st, op, calls, cfg, batch, pdf>>

EmployeeImages ==
    /\ pc \in SeqToSet(ImageCategories)
    /\ \E count \in 1..MaxImages, kind \in ImageKinds :
          Call(InsertImageSlidesByCategory(disk, Images(count, kind),
                                           CategorySlide(pc)),
               Op("insertImageSlidesByCategory", CategorySlide(pc),
                  "middle", Images(count, kind)))
    /\ Then(AfterCategory(pc))

EmployeeGuidance ==
    /\ pc = "guidance"
    /\ Call(InsertTemplateSlide(disk, 6, "middle"),
            Op("insertTextGuidanceSlide", 6, "middle", <<>>))
    /\ Then("closing")

EmployeeClosing ==
    /\ pc = "closing"
    /\ Call(InsertTemplateSlide(disk, 7, "end"),
            Op("insertSummarySlides", 7, "end", <<>>))
    /\ Then("done")

NextEmployee ==
    \/ EmployeeCover
    \/ EmployeeNoImages
    \/ EmployeeImages
    \/ EmployeeGuidance
    \/ EmployeeClosing

SpecEmployee == InitEmployee /\ [][NextEmployee]_vars

\* ------------------------------- the PDF conversion queue under any callers

\* what the callers of the queue see: the tasks in the order their task()
\* was called, and the promises of add() that were settled, with the way
Seen(started, settled) == [started |-> started, settled |-> settled]

InitPdf ==
    /\ disk = FreshDeck
    /\ pre = disk
    /\ st = InitializeState(disk)
    /\ op = Seen(<<>>, <<>>)
    /\ calls = 0
    /\ pc = "pdf"
    /\ cfg = DefaultConfig
    /\ batch = NoBatch
    /\ pdf \in {PdfConversionQueue(m) : m \in 1..MaxQueueLimit}

\* the tasks this step called, added to those called before
Started == op.started \o SetToSeq(pdf'.active \ pdf.active)

\* convertPptxToPdf(pptxPath)
PdfAdd ==
    /\ pc = "pdf" /\ calls < MaxTasks
    /\ pdf' = Add(pdf, calls + 1)
    /\ calls' = calls + 1
    /\ op' = Seen(Started, op.settled)
    /\ UNCHANGED <<disk, pre, st, pc, cfg, batch>>

\* a conversion that produced no file, or an empty one, starts again
PdfRetry ==
    /\ pc = "pdf"
    /\ \E task \in pdf.active :
          /\ pdf.retry[task] < MAX_RETRIES
          /\ pdf' = Retry(pdf, task)
    /\ UNCHANGED <<disk, pre, st, op, calls, pc, cfg, batch>>

\* a conversion returns or throws, and resolve or reject is called
PdfSettle ==
    /\ pc = "pdf"
    /\ \E task \in pdf.active, result \in {"resolved", "rejected"} :
          /\ pdf' = Settle(pdf, task)
          /\ op' = Seen(Started,
                        Append(op.settled, [task |-> task, result |-> result]))
    /\ UNCHANGED <<disk, pre, st, calls, pc, cfg, batch>>

PdfImmediate ==
    /\ pc = "pdf"
    /\ pdf.immediates > 0
    /\ pdf' = Immediate(pdf)
    /\ op' = Seen(Started, op.settled)
    /\ UNCHANGED <<disk, pre, st, calls, pc, cfg, batch>>

NextPdf ==
    \/ PdfAdd
    \/ PdfRetry
    \/ PdfSettle
    \/ PdfImmediate

SpecPdf == InitPdf /\ [][NextPdf]_vars

\* every task settles, and the event loop runs the setImmediate callbacks
SpecPdfFair == SpecPdf /\ WF_vars(PdfSettle) /\ WF_vars(PdfImmediate)

\* ------------------------------------------------------ the batch (main)

\* the switches at the head of merged.js, as shipped
addId == TRUE

generatePdf == TRUE

\* names, numbers and file names are sequences of characters
ForbiddenChars == {"<", ">", ":", "\"", "/", "\\", "|", "?", "*"}

WhiteSpace == {" "}

IsFileNameChar(c) == c \notin ForbiddenChars \cup WhiteSpace

IsNotSpace(c) == c \notin WhiteSpace

SanitizeForFilename(value) == SelectSeq(value, IsFileNameChar)

\* normalizeName(value, id), for values without extension, in lower case
NormalizeName(value, id) ==
    SelectSeq(value, IsNotSpace) \o SelectSeq(id, IsNotSpace)

Digits == <<"0", "1", "2", "3", "4", "5", "6", "7", "8", "9">>

\* `_${currentCount}`, or nothing for the first report of a name
Suffix(currentCount) ==
    IF currentCount > 0 THEN <<"_", Digits[currentCount + 1]>> ELSE <<>>

\* the fixed head of the name, four Chinese characters and "_", is written
\* "report_"
BuildReportFileName(employee, suffix) ==
    <<"report_">> \o SanitizeForFilename(employee.name)
        \o (IF addId THEN <<"_">> \o SanitizeForFilename(employee.id)
            ELSE <<>>)
        \o suffix \o <<".pptx">>

\* pptxPath.replace(/\.pptx$/i, ".pdf")
PdfPath(pptxPath) == SubSeq(pptxPath, 1, Len(pptxPath) - 1) \o <<".pdf">>

Employee(name, id) == [name |-> name, id |-> id]

\* the rows an employee sheet can hold: two people of one name, one of them
\* entered a second time with a blank inside the name, and three others
Staff ==
    <<Employee(<<"a", "b">>, <<"1">>),
      Employee(<<"a", "b">>, <<"2">>),
      Employee(<<"a", " ", "b">>, <<"1">>),
      Employee(<<"c">>, <<"3">>),
      Employee(<<"d">>, <<"4">>),
      Employee(<<"e">>, <<"5">>)>>

Assets(summaryFile, summaryText, attachments) ==
    [summaryFile |-> summaryFile, summaryText |-> summaryText,
     attachments |-> attachments]

\* the data directory, by normalized file name: a summary document and an
\* attachment for ab1 and for ab2, a summary of blanks only for d4, an
\* attachment and no summary for e5, nothing for c3
DataDir ==
    (<<"a", "b", "1">> :> Assets(TRUE, <<"o", "k">>, 1))
    @@ (<<"a", "b", "2">> :> Assets(TRUE, <<"o", "k">>, 1))
    @@ (<<"d", "4">> :> Assets(TRUE, <<" ", " ">>, 0))
    @@ (<<"e", "5">> :> Assets(FALSE, <<>>, 1))

CollectEmployeeAssets(employee) ==
    LET normalized == NormalizeName(employee.name, employee.id)
    IN  IF normalized \in DOMAIN DataDir THEN DataDir[normalized]
        ELSE Assets(FALSE, <<>>, 0)

\* Boolean(assetInfo.summaryText.trim())
HasSummary(assets) == SelectSeq(assets.summaryText, IsNotSpace) # <<>>

HasAttachments(assets) == assets.attachments > 0

\* the sheets: MaxEmployees rows of Staff that follow one another
EmployeeLists ==
    {SubSeq(Staff, from, from + MaxEmployees - 1) :
        from \in 1..(Len(Staff) - MaxEmployees + 1)}

Job(kind, e) == [kind |-> kind, e |-> e]

\* main, up to the call of limitConcurrency.  An employee is named by the
\* place in the list; task is where each task function stands, jobs the
\* promise reactions waiting to run, in order.  files are the paths in the
\* output directory, empty those of size 0, pdfErrors the employees whose
\* failed conversion was written to the console.
Main(employees, maxConcurrency) ==
    [main |-> "loop",
     employees |-> employees,
     maxConcurrency |-> maxConcurrency,
     next |-> 1,
     task |-> [e \in 1..Len(employees) |-> "new"],
     invoked |-> [e \in 1..Len(employees) |-> 0],
     executing |-> <<>>,
     jobs |-> <<>>,
     successReports |-> <<>>,
     skippedEmployees |-> <<>>,
     nameCounter |-> <<>>,
     outputPath |-> [e \in 1..Len(employees) |-> <<>>],
     files |-> {},
     empty |-> {},
     pdfErrors |-> {}]

\* the reason processEmployee returns for an employee without results and
\* without AI summary
Missing == "no results and no AI summary"

\* the reason the catch block gives, without the message of the error
Failed == "generation failed"

\* the task function returns: its promise is fulfilled, and the callback
\* limitConcurrency gave to then() waits to run
TaskReturns(b, e) ==
    [b EXCEPT !.task[e] = "returned",
              !.jobs = Append(b.jobs, Job("then", e))]

\* the catch block of the task function, left out: the error goes on
CaughtNot(b, e) == [b EXCEPT !.task[e] = "rejected"]

\* the task function with a result branch that records nothing
SkippedUnrecorded(b, e) == TaskReturns(b, e)

\* the catch block of the task function
Caught(b, e) ==
    TaskReturns([b EXCEPT !.skippedEmployees =
                     Append(b.skippedEmployees,
                            [employee |-> e, reason |-> Failed])], e)

Skipped(b, e) ==
    TaskReturns([b EXCEPT !.skippedEmployees =
                     Append(b.skippedEmployees,
                            [employee |-> e, reason |-> Missing])], e)

Succeeded(b, e, outputPath) ==
    TaskReturns([b EXCEPT !.successReports =
                     Append(b.successReports,
                            [employee |-> e, outputPath |-> outputPath])], e)

CurrentCount(b, name) ==
    IF name \in DOMAIN b.nameCounter THEN b.nameCounter[name] ELSE 0

\* processEmployee with the name counter advanced before the assets are
\* looked at
AfterCollectCountFirst(b, e) ==
    LET employee == b.employees[e]
        assets == CollectEmployeeAssets(employee)
        currentCount == CurrentCount(b, employee.name)
        counted == [b EXCEPT !.nameCounter =
                        (employee.name :> currentCount + 1) @@ b.nameCounter]
    IN  IF ~HasSummary(assets) /\ ~HasAttachments(assets)
        THEN Skipped(counted, e)
        ELSE [counted EXCEPT
                 !.outputPath[e] =
                     BuildReportFileName(employee, Suffix(currentCount)),
                 !.task[e] = "write"]

\* processEmployee from the return of collectEmployeeAssets to the call of
\* pptx.writeFile
AfterCollect(b, e) ==
    LET employee == b.employees[e]
        assets == CollectEmployeeAssets(employee)
        currentCount == CurrentCount(b, employee.name)
    IN  IF ~HasSummary(assets) /\ ~HasAttachments(assets)
        THEN Skipped(b, e)
        ELSE [b EXCEPT
                 !.nameCounter =
                     (employee.name :> currentCount + 1) @@ b.nameCounter,
                 !.outputPath[e] =
                     BuildReportFileName(employee, Suffix(currentCount)),
                 !.task[e] = "write"]

\* task(): the task function runs into processEmployee and on into
\* collectEmployeeAssets, which waits for extractSummaryText when there is a
\* summary document and returns at once when there is none
InvokeTask(b, e) ==
    IF CollectEmployeeAssets(b.employees[e]).summaryFile
    THEN [b EXCEPT !.invoked[e] = b.invoked[e] + 1,
                   !.task[e] = "collect"]
    ELSE [b EXCEPT !.invoked[e] = b.invoked[e] + 1,
                   !.task[e] = "collecting",
                   !.jobs = Append(b.jobs, Job("collected", e))]

\* where limitConcurrency goes on after an iteration or after the race
Onward(b) == IF b.next > Len(b.employees) THEN "all" ELSE "loop"

\* the loop of limitConcurrency without the wait for Promise.race
LoopBodyNoRace(b) ==
    Bind(InvokeTask(b, b.next),
    LAMBDA s :
        Bind([s EXCEPT !.executing = Append(s.executing, b.next),
                       !.next = b.next + 1],
        LAMBDA t : [t EXCEPT !.main = Onward(t)]))

\* one iteration of the loop of limitConcurrency
LoopBody(b) ==
    Bind(InvokeTask(b, b.next),
    LAMBDA s :
        Bind([s EXCEPT !.executing = Append(s.executing, b.next),
                       !.next = b.next + 1],
        LAMBDA t :
            [t EXCEPT !.main =
                 IF Len(t.executing) >= t.maxConcurrency THEN "race"
                 ELSE Onward(t)]))

\* the callback of then() in limitConcurrency; the promise it settles lets
\* a pending Promise.race go on
ThenCallback(b, e) ==
    Bind([b EXCEPT !.executing =
              SelectSeq(b.executing, LAMBDA x : x # e),
                   !.task[e] = "settled"],
    LAMBDA s :
        IF s.main = "race"
        THEN [s EXCEPT !.main = "raced",
                       !.jobs = Append(s.jobs, Job("race", 0))]
        ELSE s)

Pop(b) == [b EXCEPT !.jobs = Tail(b.jobs)]

\* the state after construction: the sheet is loaded, no task has started
InitBatch ==
    /\ disk = FreshDeck
    /\ pre = disk
    /\ st = InitializeState(disk)
    /\ op = Op("none", 0, "", <<>>)
    /\ calls = 0
    /\ pc = "batch"
    /\ cfg = DefaultConfig
    /\ pdf = PdfConversionQueue(MAX_CONCURRENT_PDF_CONVERSIONS)
    /\ \E employees \in EmployeeLists, maxConcurrency \in 1..MaxConcurrency :
          batch = Main(employees, maxConcurrency)

Inert == UNCHANGED <<disk, pre, st, op, calls, pc, cfg>>

\* main runs on without a break while it is in the loop; everything else
\* runs when it waits
Waiting == pc = "batch" /\ batch.main \in {"race", "raced", "all"}

\* the event loop takes a callback of a finished external call only when no
\* promise reaction is left
Idle == Waiting /\ batch.jobs = <<>>

StartTask ==
    /\ pc = "batch" /\ batch.main = "loop"
    /\ batch' = LoopBody(batch)
    /\ UNCHANGED pdf /\ Inert

Collected ==
    /\ Waiting /\ batch.jobs # <<>> /\ Head(batch.jobs).kind = "collected"
    /\ batch' = AfterCollect(Pop(batch), Head(batch.jobs).e)
    /\ UNCHANGED pdf /\ Inert

TaskSettled ==
    /\ Waiting /\ batch.jobs # <<>> /\ Head(batch.jobs).kind = "then"
    /\ batch' = ThenCallback(Pop(batch), Head(batch.jobs).e)
    /\ UNCHANGED pdf /\ Inert

RaceWon ==
    /\ Waiting /\ batch.jobs # <<>> /\ Head(batch.jobs).kind = "race"
    /\ batch' = [Pop(batch) EXCEPT !.main = Onward(batch)]
    /\ UNCHANGED pdf /\ Inert

\* extractSummaryText returns or throws
SummaryRead ==
    /\ Idle
    /\ \E e \in DOMAIN batch.task, ok \in BOOLEAN :
          /\ batch.task[e] = "collect"
          /\ batch' = IF ok THEN AfterCollect(batch, e) ELSE Caught(batch, e)
    /\ UNCHANGED pdf /\ Inert

\* pptx.writeFile returns or throws
FileWritten ==
    /\ Idle
    /\ \E e \in DOMAIN batch.task, ok \in BOOLEAN :
          /\ batch.task[e] = "write"
          /\ batch' =
                IF ok
                THEN [batch EXCEPT
                         !.files = batch.files \cup {batch.outputPath[e]},
                         !.task[e] = "inject"]
                ELSE Caught(batch, e)
    /\ UNCHANGED pdf /\ Inert

\* the insert calls of processEmployee return, or one of them throws; then
\* convertPptxToPdf puts the conversion into the queue
Injected ==
    /\ Idle
    /\ \E e \in DOMAIN batch.task, ok \in BOOLEAN :
          /\ batch.task[e] = "inject"
          /\ IF ok /\ generatePdf
             THEN /\ batch' = [batch EXCEPT !.task[e] = "convert"]
                  /\ pdf' = Add(pdf, e)
             ELSE /\ batch' = IF ok
                              THEN Succeeded(batch, e, batch.outputPath[e])
                              ELSE Caught(batch, e)
                  /\ UNCHANGED pdf
    /\ Inert

ConversionRetried ==
    /\ Idle
    /\ \E e \in pdf.active :
          /\ pdf.retry[e] < MAX_RETRIES
          /\ pdf' = Retry(pdf, e)
    /\ UNCHANGED batch /\ Inert

\* how the conversion and the steps after it can end: the PDF is there and
\* the PPTX removed; the PDF has size 0; fs.stat or fs.remove throws; the
\* conversion throws
Outcomes == {"converted", "empty", "kept", "failed"}

\* the catch block around convertPptxToPdf left out
AfterConversionUncaught(b, e, outcome) ==
    LET pptx == b.outputPath[e]
        pdfFile == PdfPath(b.outputPath[e])
    IN  CASE outcome = "converted" ->
               Succeeded([b EXCEPT !.files = (b.files \ {pptx}) \cup {pdfFile}],
                         e, pdfFile)
          [] outcome = "empty" ->
               Succeeded([b EXCEPT !.files = b.files \cup {pdfFile},
                                   !.empty = b.empty \cup {pdfFile}],
                         e, pptx)
          [] outcome = "kept" ->
               Succeeded([b EXCEPT !.files = b.files \cup {pdfFile}], e, pptx)
          [] outcome = "failed" ->
               Caught([b EXCEPT !.pdfErrors = b.pdfErrors \cup {e}], e)

\* processEmployee from the return of convertPptxToPdf to its own return
AfterConversion(b, e, outcome) ==
    LET pptx == b.outputPath[e]
        pdfFile == PdfPath(b.outputPath[e])
    IN  CASE outcome = "converted" ->
               Succeeded([b EXCEPT !.files = (b.files \ {pptx}) \cup {pdfFile}],
                         e, pdfFile)
          [] outcome = "empty" ->
               Succeeded([b EXCEPT !.files = b.files \cup {pdfFile},
                                   !.empty = b.empty \cup {pdfFile}],
                         e, pptx)
          [] outcome = "kept" ->
               Succeeded([b EXCEPT !.files = b.files \cup {pdfFile}], e, pptx)
          [] outcome = "failed" ->
               Succeeded([b EXCEPT !.pdfErrors = b.pdfErrors \cup {e}], e, pptx)

\* the conversion settles, and processEmployee goes on to its return; a
\* conversion whose PPTX file is gone can only throw (fs.readFile)
Converted ==
    /\ Idle
    /\ \E e \in pdf.active, outcome \in Outcomes :
          /\ outcome # "failed" => batch.outputPath[e] \in batch.files
          /\ pdf' = Settle(pdf, e)
          /\ batch' = AfterConversion(batch, e, outcome)
    /\ Inert

QueueImmediate ==
    /\ Idle
    /\ pdf.immediates > 0
    /\ pdf' = Immediate(pdf)
    /\ UNCHANGED batch /\ Inert

\* Promise.all(results) is fulfilled, and main prints the summary
Summary ==
    /\ Idle /\ batch.main = "all"
    /\ \A e \in DOMAIN batch.task : batch.task[e] = "settled"
    /\ batch' = [batch EXCEPT !.main = "summary"]
    /\ UNCHANGED pdf /\ Inert

NextBatch ==
    \/ StartTask
    \/ Collected
    \/ TaskSettled
    \/ RaceWon
    \/ SummaryRead
    \/ FileWritten
    \/ Injected
    \/ ConversionRetried
    \/ Converted
    \/ QueueImmediate
    \/ Summary

SpecBatch == InitBatch /\ [][NextBatch]_vars

\* every external call settles, and the event loop runs what is ready
SpecBatchFair == SpecBatch /\ WF_vars(NextBatch)

\* ------------------------------------------- the delivery of the PDF files

\* the two copies of sendWechatEeMsg
Builds == {"send-wechat-ee-msg.js", "unnamed/part_000"}

\* what a call of getQixinId or sendFileToUser comes back with: an answer
\* carrying a code (returnCode, code), or an error thrown
Answer(thrown, code) == [thrown |-> thrown, code |-> code]

NoAnswer == [thrown |-> FALSE, code |-> -1]

Answers == {Answer(FALSE, 1), Answer(FALSE, 0), Answer(TRUE, 0)}

\* the lists of PDF files of send_data: TRUE for a file whose name yields a
\* name and an identity number, FALSE for one whose name does not
FileLists == UNION {[1..n -> BOOLEAN] : n \in 1..MaxFiles}

\* sendWechatEeMsg at the head of its loop
Delivery(build, pdfFiles) ==
    [main |-> "delivery", build |-> build, pdfFiles |-> pdfFiles, i |-> 1,
     at |-> "match", qixinResult |-> NoAnswer,
     successCount |-> 0, failCount |-> 0]

\* what was seen of one file: the two answers and the counter raised
SeenFile(qixinResult, sendResult, counted) ==
    [qixinResult |-> qixinResult, sendResult |-> sendResult, counted |-> counted]

\* successCount++ at the end of the try block, on to the next file
CountSuccess(d) ==
    [d EXCEPT !.successCount = d.successCount + 1, !.i = d.i + 1,
              !.at = "match", !.qixinResult = NoAnswer]

\* failCount++ (before continue, or in the catch block), on to the next file
CountFail(d) ==
    [d EXCEPT !.failCount = d.failCount + 1, !.i = d.i + 1,
              !.at = "match", !.qixinResult = NoAnswer]

\* after `await getQixinId(id)`
AfterLookup(d, qixinResult) ==
    IF qixinResult.thrown THEN CountFail(d)
    ELSE IF qixinResult.code = 1
    THEN [d EXCEPT !.at = "send", !.qixinResult = qixinResult]
    ELSE IF d.build = "unnamed/part_000" THEN CountFail(d)
    ELSE CountSuccess(d)

\* after `await sendFileToUser(...)`: the code only chooses the message
AfterSend(d, sendResult) ==
    IF sendResult.thrown THEN CountFail(d) ELSE CountSuccess(d)

InitDelivery ==
    /\ \E build \in Builds, pdfFiles \in FileLists :
          batch = Delivery(build, pdfFiles)
    /\ op = <<>>
    /\ disk = FreshDeck
    /\ pre = disk
    /\ st = InitializeState(disk)
    /\ calls = 0
    /\ pc = "delivery"
    /\ cfg = DefaultConfig
    /\ pdf = PdfConversionQueue(MAX_CONCURRENT_PDF_CONVERSIONS)

\* the counter the step raised
CountedBy(d, e) ==
    IF e.successCount > d.successCount THEN "success"
    ELSE IF e.failCount > d.failCount THEN "fail" ELSE "none"

\* the head of the loop body: the file name is matched
MatchName ==
    /\ pc = "delivery" /\ batch.at = "match" /\ batch.i <= Len(batch.pdfFiles)
    /\ IF batch.pdfFiles[batch.i]
       THEN /\ batch' = [batch EXCEPT !.at = "lookup"]
            /\ UNCHANGED op
       ELSE /\ batch' = CountFail(batch)
            /\ op' = Append(op, SeenFile(NoAnswer, NoAnswer, "fail"))
    /\ UNCHANGED <<disk, pre, st, calls, pc, cfg, pdf>>

\* getQixinId settles
LookupAnswered ==
    /\ pc = "delivery" /\ batch.at = "lookup"
    /\ \E qixinResult \in Answers :
          /\ batch' = AfterLookup(batch, qixinResult)
          /\ op' = IF batch'.at = "send" THEN op
                   ELSE Append(op, SeenFile(qixinResult, NoAnswer,
                                            CountedBy(batch, batch')))
    /\ UNCHANGED <<disk, pre, st, calls, pc, cfg, pdf>>

\* sendFileToUser settles
SendAnswered ==
    /\ pc = "delivery" /\ batch.at = "send"
    /\ \E sendResult \in Answers :
          /\ batch' = AfterSend(batch, sendResult)
          /\ op' = Append(op, SeenFile(batch.qixinResult, sendResult,
                                       CountedBy(batch, batch')))
    /\ UNCHANGED <<disk, pre, st, calls, pc, cfg, pdf>>

\* the loop is through: the two counts are printed
Statistics ==
    /\ pc = "delivery" /\ batch.at = "match" /\ batch.i > Len(batch.pdfFiles)
    /\ batch' = [batch EXCEPT !.at = "done"]
    /\ UNCHANGED <<disk, pre, st, op, calls, pc, cfg, pdf>>

NextDelivery ==
    \/ MatchName
    \/ LookupAnswered
    \/ SendAnswered
    \/ Statistics

SpecDelivery == InitDelivery /\ [][NextDelivery]_vars

\* ------------------------------------------- the placeholder substitution

\* Slide XML is a sequence of pieces: tags, and the pieces of text between
\* them.  The pieces of text a placeholder pattern can match, for the key
\* that is being replaced: {{key}}, [key], the key itself; OtherText is text
\* that holds no key.
OpenT == "<a:t>"

CloseT == "</a:t>"

\* an element of a table cell: its name starts with a:t, as do a:tbl, a:tr,
\* a:tc, a:tab, a:tailEnd
CellProps == "<a:tcPr/>"

\* the head of a shape's name attribute; the piece after it is the name
NameAttr == "<p:cNvPr name="

TagEnd == "/>"

PlaceholderForm == "{{key}}"

BracketForm == "[key]"

DirectForm == "key"

OtherText == "x"

\* the keys of a replacements map: the value of a key other than gender and
\* age is skipped when it is empty
Keys == {"name", "age"}

\* the characters of a value; "^A" is a control character
\* the grave accent, the apostrophe and the double quote
Backtick == "grave"

Apostrophe == "apos"

Quote == "quot"

ValueChars == {"a", "&", "<", ">", "$", Backtick, "^A"}

ControlChars == {"^A"}

Values == UNION {[1..n -> ValueChars] : n \in 0..MaxValueLen}

\* a shape with a name and one text run; a table cell's properties
Shape(name, body) == <<NameAttr, name, TagEnd, OpenT>> \o body \o <<CloseT>>

Bodies == {<<PlaceholderForm>>, <<BracketForm>>, <<OtherText, DirectForm>>}

Elements ==
    {<<CellProps>>}
    \cup {Shape(name, body) : name \in {DirectForm, PlaceholderForm}, body \in Bodies}

RECURSIVE Flatten(_)
Flatten(seqs) == IF seqs = <<>> THEN <<>> ELSE Head(seqs) \o Flatten(Tail(seqs))

Slides == {Flatten(es) : es \in UNION {[1..n -> Elements] : n \in 1..MaxElements}}

\* String.prototype.replace(/ch/g, repl) on a sequence of characters
RECURSIVE ReplaceAll(_, _, _)
ReplaceAll(s, ch, repl) ==
    IF s = <<>> THEN <<>>
    ELSE (IF Head(s) = ch THEN repl ELSE <<Head(s)>>) \o ReplaceAll(Tail(s), ch, repl)

\* escapeXmlValue: the control characters are dropped, then the ampersand,
\* the angle brackets and the quotes are replaced, in this order
EscapeXmlValue(value) ==
    IF value = <<>> THEN <<>>
    ELSE LET NotControl(c) == c \notin ControlChars
         IN  ReplaceAll(
                 ReplaceAll(
                     ReplaceAll(
                         ReplaceAll(
                             ReplaceAll(SelectSeq(value, NotControl),
                                        "&", <<"&", "a", "m", "p", ";">>),
                             "<", <<"&", "l", "t", ";">>),
                         ">", <<"&", "g", "t", ";">>),
                     Quote, <<"&", "q", "u", "o", "t", ";">>),
                 Apostrophe, <<"&", "a", "p", "o", "s", ";">>)

\* What String.prototype.replace makes of a replacement given as a string:
\* $$ is a dollar sign, $& the matched text, $` the text before the match,
\* $' the text after it, $n the n-th group if the pattern has one; any other
\* dollar sign stands for itself.
RECURSIVE GetSubstitution(_, _, _, _, _)
GetSubstitution(r, before, matched, after, groups) ==
    IF r = <<>> THEN <<>>
    ELSE IF Head(r) # "$" \/ Len(r) = 1
    THEN <<Head(r)>> \o GetSubstitution(Tail(r), before, matched, after, groups)
    ELSE LET rest == SubSeq(r, 3, Len(r))
         IN  CASE r[2] = "$" ->
                    <<"$">> \o GetSubstitution(rest, before, matched, after, groups)
               [] r[2] = "&" ->
                    matched \o GetSubstitution(rest, before, matched, after, groups)
               [] r[2] = Backtick ->
                    before \o GetSubstitution(rest, before, matched, after, groups)
               [] r[2] = Apostrophe ->
                    after \o GetSubstitution(rest, before, matched, after, groups)
               [] r[2] = "1" /\ Len(groups) >= 1 ->
                    groups[1] \o GetSubstitution(rest, before, matched, after, groups)
               [] r[2] = "2" /\ Len(groups) >= 2 ->
                    groups[2] \o GetSubstitution(rest, before, matched, after, groups)
               [] OTHER ->
                    <<"$">> \o GetSubstitution(Tail(r), before, matched, after, groups)

\* text.replace(pattern, string) for a pattern that matches one piece: every
\* match is replaced by what the string stands for at that match
RECURSIVE ReplaceByString(_, _, _, _)
ReplaceByString(text, i, form, r) ==
    IF i > Len(text) THEN <<>>
    ELSE (IF text[i] = form
          THEN GetSubstitution(r, SubSeq(text, 1, i - 1), <<text[i]>>,
                               SubSeq(text, i + 1, Len(text)), <<>>)
          ELSE <<text[i]>>)
         \o ReplaceByString(text, i + 1, form, r)

\* the replacer of a text run (merged.js): {{key}} through a function that
\* returns the value, then [key] and the key itself with the value as the
\* replacement string
ReplaceInContent(content, escapedValue) ==
    ReplaceByString(
        ReplaceByString(ReplaceAll(content, PlaceholderForm, escapedValue),
                        1, BracketForm, escapedValue),
        1, DirectForm, escapedValue)

\* /<a:t[^>]*>/ matches the tag of every element whose name starts with a:t
IsTextRunOpen(piece) == piece \in {OpenT, CellProps}

\* the index of the first </a:t> after index i, 0 if there is none
NextClose(xml, i) ==
    IF \E j \in (i + 1)..Len(xml) : xml[j] = CloseT
    THEN CHOOSE j \in (i + 1)..Len(xml) :
             xml[j] = CloseT /\ \A k \in (i + 1)..(j - 1) : xml[k] # CloseT
    ELSE 0

\* result.replace(textRunPattern, ...): from each tag the open pattern
\* matches to the first </a:t> after it, the text between is rewritten
RECURSIVE ReplaceTextRuns(_, _, _)
ReplaceTextRuns(xml, i, escapedValue) ==
    IF i > Len(xml) THEN <<>>
    ELSE IF IsTextRunOpen(xml[i]) /\ NextClose(xml, i) # 0
    THEN Bind(NextClose(xml, i),
         LAMBDA j :
             <<xml[i]>>
             \o ReplaceInContent(SubSeq(xml, i + 1, j - 1), escapedValue)
             \o <<CloseT>>
             \o ReplaceTextRuns(xml, j + 1, escapedValue))
    ELSE <<xml[i]>> \o ReplaceTextRuns(xml, i + 1, escapedValue)

\* the test at the head of the loop body: an empty value is skipped unless
\* the key is gender or age
ValueSkipped(key, value) == value = <<>> /\ key # "age"

\* replaceTextInSlidePreferred of merged.js, for a map of one key
ReplaceTextInSlidePreferred(xmlContent, key, value) ==
    IF ValueSkipped(key, value) THEN xmlContent
    ELSE ReplaceTextRuns(xmlContent, 1, EscapeXmlValue(value))

\* result.replace(textPattern, `$1${escapedValue}$2`) of templateSlides.js:
\* a text run that holds the key and nothing else
RECURSIVE ReplaceWholeRuns(_, _, _)
ReplaceWholeRuns(xml, i, escapedValue) ==
    IF i > Len(xml) THEN <<>>
    ELSE IF i + 2 <= Len(xml) /\ IsTextRunOpen(xml[i])
            /\ xml[i + 1] = DirectForm /\ xml[i + 2] = CloseT
    THEN GetSubstitution(<<"$", "1">> \o escapedValue \o <<"$", "2">>,
                         SubSeq(xml, 1, i - 1), SubSeq(xml, i, i + 2),
                         SubSeq(xml, i + 3, Len(xml)),
                         <<(<<xml[i]>>), (<<CloseT>>)>>)
         \o ReplaceWholeRuns(xml, i + 3, escapedValue)
    ELSE <<xml[i]>> \o ReplaceWholeRuns(xml, i + 1, escapedValue)

\* replaceTextInSlidePreferred of templateSlides.js, for a map of one key:
\* {{key}} and [key] are replaced wherever they stand
ReplaceTextInSlidePreferredOfTemplateSlides(xmlContent, key, value) ==
    IF ValueSkipped(key, value) THEN xmlContent
    ELSE Bind(EscapeXmlValue(value),
         LAMBDA escapedValue :
             ReplaceWholeRuns(
                 ReplaceByString(ReplaceAll(xmlContent, PlaceholderForm, escapedValue),
                                 1, BracketForm, escapedValue),
                 1, escapedValue))

\* the input of one substitution and, once it ran, its result
TextInput(xml, key, value) == [xml |-> xml, key |-> key, value |-> value]

TextResult(name, result) == [name |-> name, result |-> result]

InitText ==
    /\ \E xml \in Slides, key \in Keys, value \in Values :
          st = TextInput(xml, key, value)
    /\ op = TextResult("none", <<>>)
    /\ pc = "text"
    /\ disk = FreshDeck
    /\ pre = disk
    /\ calls = 0
    /\ cfg = DefaultConfig
    /\ batch = NoBatch
    /\ pdf = PdfConversionQueue(MAX_CONCURRENT_PDF_CONVERSIONS)

ReplaceText ==
    /\ pc = "text"
    /\ op' = TextResult("replaceTextInSlidePreferred",
                        ReplaceTextInSlidePreferred(st.xml, st.key, st.value))
    /\ pc' = "replaced"
    /\ UNCHANGED <<disk, pre, st, calls, cfg, batch, pdf>>

ReplaceTextOfTemplateSlides ==
    /\ pc = "text"
    /\ op' = TextResult("replaceTextInSlidePreferred of templateSlides.js",
                        ReplaceTextInSlidePreferredOfTemplateSlides(
                            st.xml, st.key, st.value))
    /\ pc' = "replaced"
    /\ UNCHANGED <<disk, pre, st, calls, cfg, batch, pdf>>

NextText ==
    \/ ReplaceText
    \/ ReplaceTextOfTemplateSlides

SpecText == InitText /\ [][NextText]_vars

\* ------------------------------------------------------------------ helpers

IdsOf(entries) == {entries[i].id : i \in 1..Len(entries)}

RidsOf(relationships) == {relationships[i].rid : i \in 1..Len(relationships)}

Distinct(seq) == \A i, j \in 1..Len(seq) : i # j => seq[i] # seq[j]

\* the slide ids the last call handed out, in injection order
NewSlideIds == [i \in 1..Len(st.finalSlides) |-> st.finalSlides[i].slideId]

\* -------------------------------------------------------------- properties

\* C1: after every insert call that rewrote the package, each slide id the
\* call wrote into <p:sldIdLst> for an injected slide is above 256, is none
\* of the ids the list held before the call, and differs from the other ids
\* of the same call; the list written is the old ids plus the new ones.
C1_SlideIdsFresh ==
    Rewritten(st) =>
        /\ \A i \in 1..Len(NewSlideIds) :
              /\ NewSlideIds[i] > 256
              /\ NewSlideIds[i] \notin IdsOf(pre.sldIdLst)
        /\ Distinct(NewSlideIds)
        /\ IdsOf(disk.sldIdLst) = IdsOf(pre.sldIdLst) \cup SeqToSet(NewSlideIds)
        /\ Len(disk.sldIdLst) = Len(pre.sldIdLst) + Len(NewSlideIds)
        /\ Distinct([i \in 1..Len(disk.sldIdLst) |-> disk.sldIdLst[i].id])

\* two slides injected by one call into a list holding 256 and 258: the ids
\* handed out step over 258
C1_Witness ==
    /\ Rewritten(st)
    /\ IdsOf(pre.sldIdLst) = {256, 258}
    /\ NewSlideIds = <<257, 259>>
\* the relationships the last call appended to presentation.xml.rels
AppendedRels == SubSeq(disk.presRels, Len(pre.presRels) + 1, Len(disk.presRels))

AppendedRelIds == [i \in 1..Len(AppendedRels) |-> AppendedRels[i].rid]

CountAt(position, i) ==
    Cardinality({j \in 1..i : st.newSlides[j].position = position})

\* the place of the i-th new slide in the list: the start slides lead, the
\* existing entries follow, then the middle slides, then the end slides
PlaceOf(i) ==
    LET n == Len(st.newSlides)
        e == Len(pre.sldIdLst)
        position == st.newSlides[i].position
    IN  CASE position = "start" -> CountAt("start", i)
          [] position = "middle" -> CountAt("start", n) + e + CountAt("middle", i)
          [] position = "end" ->
                 CountAt("start", n) + e + CountAt("middle", n) + CountAt("end", i)

\* C3: the list buildSlideEntries returns holds the start slides in
\* injection order, then the existing entries unchanged and in their order,
\* then the middle slides in injection order, then the end slides in
\* injection order, and nothing else.
C3_SlideEntriesOrder ==
    pc = "built" =>
        /\ Len(disk.sldIdLst) = Len(pre.sldIdLst) + Len(st.newSlides)
        /\ \A i \in 1..Len(st.newSlides) :
              disk.sldIdLst[PlaceOf(i)] = EntryFor(st.newSlides[i])
        /\ \A k \in 1..Len(pre.sldIdLst) :
              disk.sldIdLst[CountAt("start", Len(st.newSlides)) + k] = pre.sldIdLst[k]

\* an end, a start and a middle slide, injected in that order into a list of
\* two entries
C3_Witness ==
    /\ pc = "built"
    /\ Len(pre.sldIdLst) = 2
    /\ Len(st.newSlides) = 3
    /\ st.newSlides[1].position = "end"
    /\ st.newSlides[2].position = "start"
    /\ st.newSlides[3].position = "middle"
    /\ disk.sldIdLst = <<EntryFor(st.newSlides[2]), pre.sldIdLst[1], pre.sldIdLst[2],
                         EntryFor(st.newSlides[3]), EntryFor(st.newSlides[1])>>
\* the file-number and id counters of an injection state
Counters(s) ==
    <<s.nextSlideNumber, s.nextLayoutNumber, s.nextMasterNumber, s.nextThemeNumber,
      s.mediaCounter, s.nextSlideId, s.nextRelId, s.nextMasterId>>

\* C4: within one injection state, a clone request for a media, layout,
\* master or theme source that already has a copy in the package returns the
\* path of that copy, writes nothing (no part, no relationships file) and
\* leaves every counter as it was.
C4_CloneOnce ==
    [][(pc = "clone" /\ calls' = calls + 1) =>
          \A p \in ClonesOf(st, op'.source) :
             /\ op'.ret = p
             /\ st'.zip = st.zip
             /\ st'.rels = st.rels
             /\ st'.log = st.log
             /\ Counters(st') = Counters(st)]_vars

\* a master asked for again after the request for one of its layouts cloned
\* it: the one copy is returned
C4_Witness ==
    /\ pc = "clone"
    /\ op.again
    /\ op.name = "ensureMasterAssets"
    /\ op.source = MasterPath(1)
    /\ ClonesOf(st, MasterPath(1)) = {op.ret}
    /\ ClonesOf(st, LayoutPath(2)) # {}
\* the relationships files the last call wrote
WrittenRels(s) == {p \in SeqToSet(s.log) : p.x = "xml.rels"}

\* C5: after a call that injected slides, every relationship of every
\* relationships file the call wrote (new slides, cloned layouts, cloned
\* masters) targets a part of the output package, unless the target was
\* warned about as missing from the template.
C5_RelationshipClosure ==
    Rewritten(st) =>
        \A f \in WrittenRels(st) :
            \A i \in 1..Len(st.rels[f]) :
                \/ st.rels[f][i].Target \in DOMAIN st.zip
                \/ st.rels[f][i].Target \in st.warns
\* the slide, layout, master and theme parts the last call wrote
WrittenParts(s) ==
    {p \in SeqToSet(s.log) :
        p.k \in {"slide", "slideLayout", "slideMaster", "theme"} /\ p.x = "xml"}

\* how many <Override> entries name the part
OverridesOf(pkg, p) ==
    Cardinality({i \in 1..Len(pkg.ctOverrides) : pkg.ctOverrides[i] = p})

\* C6: after finalize, every slide, layout, master and theme part the call
\* created has exactly one <Override> in [Content_Types].xml, and no part
\* name has two, the names declared before the call included.
C6_OverrideComplete ==
    Rewritten(st) =>
        /\ \A p \in WrittenParts(st) : OverridesOf(disk, p) = 1
        /\ Distinct(disk.ctOverrides)
\* the media parts copyMediaFile wrote in the last call
ClonedMedia(s) == {p \in SeqToSet(s.log) : p.k = "template_media_"}

\* C7: whenever a call copied a template media file of some extension into
\* the package, the [Content_Types].xml it wrote declares a <Default> for
\* that extension.
C7_MediaDefaultDeclared ==
    Rewritten(st) =>
        \A p \in ClonedMedia(st) : p.x \in SeqToSet(disk.ctDefaults)
\* the i-th write of the last call creates a media part
MediaWrite(s, i) == s.log[i].k \in {"template_media_", "image_"}

\* C8: over any sequence of insert calls, a media part written by
\* copyMediaFile or replaceImagePlaceholder has a path no media part of the
\* package had, neither before the call nor from an earlier write of the
\* call, whatever its extension.
C8_MediaPathFresh ==
    Rewritten(st) =>
        \A i \in 1..Len(st.log) :
            MediaWrite(st, i) =>
                /\ st.log[i] \notin DOMAIN pre.zip
                /\ \A j \in 1..(i - 1) : st.log[j] # st.log[i]
\* the slide, layout, master and theme paths the last call took from its
\* file-number counters
AllocatedParts(s) ==
    {SlidePath(s.finalSlides[i].slideNumber) : i \in 1..Len(s.finalSlides)}
    \cup {s.layoutMap[k] : k \in DOMAIN s.layoutMap}
    \cup {s.masterMap[k].newPath : k \in DOMAIN s.masterMap}
    \cup {s.themeMap[k] : k \in DOMAIN s.themeMap}

\* the parts of the kind of p in the package when the i-th write is made
SameKindBefore(s, i, p) ==
    {q \in DOMAIN pre.zip \cup {s.log[j] : j \in 1..(i - 1)} :
        q.k = p.k /\ q.x = "xml"}

\* C9: a slide, layout, master or theme path taken from the counters is not
\* in the package when it is written: its number is above the number of
\* every part of its kind the package held before the call or got earlier
\* in the call.
C9_PartPathFresh ==
    Rewritten(st) =>
        \A i \in 1..Len(st.log) :
            st.log[i] \in AllocatedParts(st) =>
                /\ st.log[i] \notin DOMAIN pre.zip
                /\ \A j \in 1..(i - 1) : st.log[j] # st.log[i]
                /\ \A q \in SameKindBefore(st, i, st.log[i]) : q.n < st.log[i].n
\* the template sources that are cloned: layouts, masters, themes, media
CloneSources ==
    {p \in TemplateParts : p.k \in {"slideLayout", "slideMaster", "theme", "image"}}

\* the copies of a template source in a package
ClonesIn(pkg, sourcePath) ==
    {p \in DOMAIN pkg.zip :
        /\ pkg.zip[p] = sourcePath
        /\ p.k \in {"slideLayout", "slideMaster", "theme", "template_media_"}}

\* the parts of a package that are copies of template parts with
\* relationships
CopiesIn(pkg) ==
    {p \in DOMAIN pkg.zip : TemplateHasRels(pkg.zip[p]) /\ RelsPath(p) \in DOMAIN pkg.rels}

\* the clones of the source that relationships of the package point at, where
\* the template's relationship pointed at the source
ClonesPointedAt(pkg, sourcePath) ==
    UNION {{pkg.rels[RelsPath(p)][i].Target :
               i \in {j \in 1..Len(TemplateRelsOf(pkg.zip[p])) :
                         /\ j <= Len(pkg.rels[RelsPath(p)])
                         /\ TemplateRelsOf(pkg.zip[p])[j].Target = sourcePath}} :
           p \in CopiesIn(pkg)}
    \cap ClonesIn(pkg, sourcePath)

\* C10: in the package processEmployee has made with its insert calls, each
\* template layout, master, theme and media source has at most one clone,
\* and the relationships that pointed at the source point at one clone.
C10_OneClonePerEmployee ==
    pc = "done" =>
        \A sourcePath \in CloneSources :
            /\ Cardinality(ClonesIn(disk, sourcePath)) <= 1
            /\ Cardinality(ClonesPointedAt(disk, sourcePath)) <= 1
\* the template page an entry of <p:sldIdLst> is a copy of: the entry's
\* relationship names the slide part, whose text came from that page
PageOf(pkg, entry) ==
    LET rel == CHOOSE r \in SeqToSet(pkg.presRels) : r.rid = entry.rid
    IN  pkg.zip[rel.target].n

PagesOf(pkg) == [i \in 1..Len(pkg.sldIdLst) |-> PageOf(pkg, pkg.sldIdLst[i])]

\* seq is what is left of full when the entries at some places are dropped
RECURSIVE IsSubSeq(_, _)
IsSubSeq(seq, full) ==
    IF seq = <<>> THEN TRUE
    ELSE IF full = <<>> THEN FALSE
    ELSE IF Head(seq) = Head(full) THEN IsSubSeq(Tail(seq), Tail(full))
    ELSE IsSubSeq(seq, Tail(full))

\* C11: every call of processEmployee keeps the entries of earlier calls in
\* their order, and adds one entry per slide it injected, each a copy of the
\* call's template page; when processEmployee is through, the list runs
\* cover (page 1), inbody (2), lab (3), ecg (4), ai (5), guidance (6) if
\* enabled, closing (7): the cover first and once, the closing last and once.
C11_SlideOrder ==
    /\ Rewritten(st) =>
          /\ IsSubSeq(pre.sldIdLst, disk.sldIdLst)
          /\ Len(disk.sldIdLst) = Len(pre.sldIdLst) + Len(st.finalSlides)
          /\ \A i \in 1..Len(disk.sldIdLst) :
                disk.sldIdLst[i] \notin SeqToSet(pre.sldIdLst) =>
                    PageOf(disk, disk.sldIdLst[i]) = op.slide
    /\ pc = "done" =>
          LET pages == PagesOf(disk)
              n == Len(pages)
          IN  /\ n >= 2
              /\ \A i \in 1..(n - 1) : pages[i] <= pages[i + 1]
              /\ pages[1] = 1 /\ pages[2] # 1
              /\ pages[n] = 7 /\ pages[n - 1] # 7
              /\ (6 \in SeqToSet(pages)) = cfg.has6WhitePage

\* an employee with two inbody images, lab and ecg images and the guidance
\* page: seven or more slides, of all six pages the template has
C11_Witness ==
    /\ pc = "done"
    /\ SeqToSet(PagesOf(disk)) = {1, 2, 3, 4, 6, 7}
    /\ PagesOf(disk)[2] = 2
    /\ PagesOf(disk)[3] = 2
\* C15: the conversions whose task has been called and has not settled,
\* retries included, are never more than maxConcurrency, so with the limit
\* of 1 at most one conversion is in progress; running counts exactly them.
C15_ConversionsBounded ==
    /\ Cardinality(pdf.active) <= pdf.maxConcurrency
    /\ pdf.running = Cardinality(pdf.active)
    /\ \A task \in pdf.active : task \notin SeqToSet(pdf.queue)

\* limit 1: one conversion in its second retry while two others wait
C15_Witness ==
    /\ pc = "pdf"
    /\ pdf.maxConcurrency = MAX_CONCURRENT_PDF_CONVERSIONS
    /\ Len(pdf.queue) = 2
    /\ \E task \in pdf.active : pdf.retry[task] = MAX_RETRIES
\* the employees of the running batch, by place in the list
Employees == DOMAIN batch.task

\* the entries of a result list that name the employee
Entries(list, e) == {i \in 1..Len(list) : list[i].employee = e}

Recorded(e) ==
    Cardinality(Entries(batch.successReports, e))
        + Cardinality(Entries(batch.skippedEmployees, e))

\* C12: when main prints the summary, every employee of the list has one
\* entry in successReports or in skippedEmployees and none in the other, a
\* skipped one with a reason, so the two lengths add up to the number of
\* employees; before that, exactly the employees whose task returned have
\* their entry.
C12_EachEmployeeOnce ==
    pc = "batch" =>
        /\ \A e \in Employees :
              Recorded(e) =
                  IF batch.task[e] \in {"returned", "settled"} THEN 1 ELSE 0
        /\ \A i \in 1..Len(batch.skippedEmployees) :
              batch.skippedEmployees[i].reason \in {Missing, Failed}
        /\ batch.main = "summary" =>
              /\ \A e \in Employees : Recorded(e) = 1
              /\ Len(batch.successReports) + Len(batch.skippedEmployees)
                     = Len(batch.employees)

\* a finished batch with a generated report, an employee without data and
\* an employee whose report failed
C12_Witness ==
    /\ pc = "batch" /\ batch.main = "summary"
    /\ batch.successReports # <<>>
    /\ \E i, j \in 1..Len(batch.skippedEmployees) :
          /\ batch.skippedEmployees[i].reason = Missing
          /\ batch.skippedEmployees[j].reason = Failed

\* main has printed the summary, and every task function was called once
\* and came to its end
BatchDone ==
    /\ batch.main = "summary"
    /\ \A e \in Employees : batch.invoked[e] = 1 /\ batch.task[e] = "settled"

\* C13: when every external call settles, the batch reaches its summary
\* with every task started and finished, whatever was thrown on the way.
C13_BatchCompletes == <>BatchDone

\* the summary is reached although the report of the first employee failed
\* and the one of a later employee was generated
C13_Witness ==
    /\ pc = "batch" /\ BatchDone
    /\ \E i \in 1..Len(batch.skippedEmployees),
          j \in 1..Len(batch.successReports) :
          /\ batch.skippedEmployees[i].reason = Failed
          /\ batch.skippedEmployees[i].employee = 1
          /\ batch.successReports[j].employee > 1

\* the tasks that have started and have not settled
InFlight == {e \in Employees : batch.task[e] \notin {"new", "returned", "settled"}}

\* C14: the tasks started and not settled are never more than
\* maxConcurrency, no task function is called twice, and when the loop is
\* through every task function has been called.
C14_ConcurrencyBounded ==
    pc = "batch" =>
        /\ Cardinality(InFlight) <= batch.maxConcurrency
        /\ \A e \in Employees :
              batch.invoked[e] = IF e < batch.next THEN 1 ELSE 0
        /\ batch.main \in {"all", "summary"} =>
              batch.next = Len(batch.employees) + 1

\* two tasks in flight under the limit of two while the third waits
C14_Witness ==
    /\ pc = "batch" /\ batch.main = "race"
    /\ batch.maxConcurrency = 2
    /\ Cardinality(InFlight) = 2
    /\ batch.next <= Len(batch.employees)

Named == {e \in Employees : batch.outputPath[e] # <<>>}

\* C16: no two employees of a batch have the same output path.
C16_OutputPathsDistinct ==
    pc = "batch" =>
        \A e1, e2 \in Named :
            e1 # e2 => batch.outputPath[e1] # batch.outputPath[e2]

\* the employees before e in the list that have the name of e and a file name
NamedBefore(e) ==
    {x \in Named : x < e /\ batch.employees[x].name = batch.employees[e].name}

\* C17: the file name of an employee is fixed by the list: its counter is
\* the number of employees of the same name before it in the list that got
\* a file name, in whatever order the tasks ran.
C17_NameFixedByList ==
    pc = "batch" =>
        \A e \in Named :
            batch.outputPath[e] =
                BuildReportFileName(batch.employees[e],
                                    Suffix(Cardinality(NamedBefore(e))))

NoData(e) ==
    /\ ~HasSummary(CollectEmployeeAssets(batch.employees[e]))
    /\ ~HasAttachments(CollectEmployeeAssets(batch.employees[e]))

SkippedFor(e, reason) ==
    \E i \in 1..Len(batch.skippedEmployees) :
        batch.skippedEmployees[i] = [employee |-> e, reason |-> reason]

Incomplete(pkg) == ~(MetaFiles \subseteq pkg.meta)

\* the layout the template page names
LayoutOf(n) ==
    LET relItems == TemplateRelsOf(SlidePath(n))
    IN  relItems[CHOOSE i \in 1..Len(relItems) :
                     relItems[i].Type = REL_TYPES.slideLayout].Target

\* the relationships file of the page's layout is absent or names no master
DamagedLayout(n) ==
    /\ SlidePath(n) \in TemplateParts
    /\ \/ ~TemplateHasRels(LayoutOf(n))
       \/ FindMasterRel(TemplateRelsOf(LayoutOf(n))) = NoPath

\* C19: an insert call on a package without presentation.xml, its
\* relationships or [Content_Types].xml, or for a page whose layout has no
\* relationships file or names no master, throws; and a call that throws
\* leaves the package on disk as it was before the call.
C19_RaisesBeforeRewrite ==
    (pc = "free" /\ calls > 0) =>
        /\ (Incomplete(pre) \/ DamagedLayout(op.slide)) => st.err # ""
        /\ st.err # "" => disk = pre /\ ~Rewritten(st)

\* the second call throws for the layout without master, after it wrote
\* parts into its copy of a package that already holds an injected slide
C19_Witness ==
    /\ pc = "free" /\ calls = 2
    /\ op.slide = 9
    /\ st.err = "layout without master"
    /\ st.log # <<>>
    /\ Len(pre.sldIdLst) = 1
    /\ disk = pre
\* C20: a copyMediaFile request for a media file the template does not
\* hold raises no error, leaves a warning, writes no copy and returns the
\* path it was given.
C20_MissingMediaTolerated ==
    (pc = "clone"
        /\ op.name \in {"copyMediaFile", "copyMediaFile of templateSlides.js"}
        /\ op.source \notin TemplateParts) =>
        /\ st.err = ""
        /\ op.source \in st.warns
        /\ op.ret = op.source
        /\ ClonesOf(st, op.source) = {}
\* C21: a call for a template page that is absent leaves its injection
\* state as initializeState built it from the package, the warning aside (no
\* slide number taken, no part written, no pending slide, content types as
\* they were), and a call that injected no slide leaves the file as it was.
C21_AbsentPageNoEffect ==
    (pc = "free" /\ calls > 0 /\ st.err = "") =>
        /\ SlidePath(op.slide) \notin TemplateParts =>
              /\ [st EXCEPT !.warns = {}] = InitializeState(pre)
              /\ st.warns = {SlidePath(op.slide)}
        /\ st.finalSlides = <<>> => disk = pre

\* insertTemplateSlide for the absent page 5, as second call, on a package
\* that the first call has put a slide into
C21_Witness ==
    /\ pc = "free" /\ calls = 2 /\ st.err = ""
    /\ op.name = "insertTemplateSlide" /\ op.slide = 5
    /\ st.warns = {SlidePath(5)}
    /\ Len(pre.sldIdLst) = 1
    /\ disk = pre
\* C22: an employee whose conversion to PDF failed is recorded among the
\* employees not generated, with the failure as reason.
C22_PdfFailureCounted ==
    pc = "batch" =>
        \A e \in batch.pdfErrors : SkippedFor(e, Failed)

\* what main does for such an employee: the failure is caught inside
\* processEmployee, and the employee is recorded once, as generated, with the
\* path of the PPTX file
PdfFailureKeepsReport ==
    pc = "batch" =>
        \A e \in batch.pdfErrors :
            /\ batch.task[e] \in {"returned", "settled"}
            /\ Entries(batch.skippedEmployees, e) = {}
            /\ \E i \in 1..Len(batch.successReports) :
                  batch.successReports[i] =
                      [employee |-> e, outputPath |-> batch.outputPath[e]]
            /\ Recorded(e) = 1

\* the batch is through: the conversion of the first employee failed, and a
\* later employee got a PDF
PdfFailureSeen ==
    /\ pc = "batch" /\ batch.main = "summary"
    /\ 1 \in batch.pdfErrors
    /\ Len(batch.skippedEmployees) = 0
    /\ \E i \in 1..Len(batch.successReports) :
          /\ batch.successReports[i].employee > 1
          /\ batch.successReports[i].outputPath
                 = PdfPath(batch.outputPath[batch.successReports[i].employee])
\* the employees whose file was written and whose task has returned
Reported == {e \in Named : Entries(batch.successReports, e) # {}}

\* C30: when processEmployee returns for a generated employee, the path
\* it returns names a file in the output directory, and the PPTX file of
\* the employee is gone only if a PDF of size above 0 stands in its place.
C30_ReturnedPathExists ==
    [][(pc = "batch"
           /\ Len(batch'.successReports) = Len(batch.successReports) + 1) =>
          LET report == batch'.successReports[Len(batch'.successReports)]
              pptx == batch.outputPath[report.employee]
          IN  /\ report.outputPath \in batch'.files
              /\ pptx \notin batch'.files =>
                    PdfPath(pptx) \in batch'.files \ batch'.empty]_vars

\* the same for the employees that share their output path with no other
PathOwnersSafe ==
    pc = "batch" =>
        \A e \in Reported :
            (\A x \in Named : x # e => batch.outputPath[x] # batch.outputPath[e]) =>
                /\ \A i \in Entries(batch.successReports, e) :
                      batch.successReports[i].outputPath \in batch.files
                /\ batch.outputPath[e] \notin batch.files =>
                      PdfPath(batch.outputPath[e]) \in batch.files \ batch.empty
\* task was passed to add()
Added(task) == pc = "pdf" /\ task <= calls

WasStarted(task) == task \in SeqToSet(op.started)

\* the tasks are called in the order of add(), none twice; only a called
\* task is settled, each once
StartedInOrder ==
    pc = "pdf" =>
        /\ op.started = [i \in 1..Len(op.started) |-> i]
        /\ \A i \in 1..Len(op.settled) : WasStarted(op.settled[i].task)
        /\ \A i, j \in 1..Len(op.settled) :
              op.settled[i].task = op.settled[j].task => i = j

\* C29: every task passed to add() is called in the end, the tasks are
\* called in the order they were added and none twice, whether the tasks
\* before them resolved or rejected; a settled task settles the promise of
\* its own add() only.
C29_QueueDrains ==
    /\ []StartedInOrder
    /\ \A task \in 1..MaxTasks : Added(task) ~> WasStarted(task)

\* limit 1: the first task rejected, and the two queued behind it were
\* called after it, in their order
C29_Witness ==
    /\ pc = "pdf" /\ pdf.maxConcurrency = 1
    /\ op.started = <<1, 2, 3>>
    /\ op.settled[1] = [task |-> 1, result |-> "rejected"]
    /\ Len(op.settled) = 3

\* the place of the first write of a path in the call's sequence of writes
FirstAt(log, p) ==
    CHOOSE i \in 1..Len(log) : log[i] = p /\ \A j \in 1..(i - 1) : log[j] # p

\* both paths were written by the call, a before b
WrittenBefore(s, a, b) ==
    /\ a \in SeqToSet(s.log)
    /\ b \in SeqToSet(s.log)
    /\ FirstAt(s.log, a) < FirstAt(s.log, b)

\* the targets of one relationship type in the relationships of a part
TargetsOf(s, part, type) ==
    IF RelsPath(part) \in DOMAIN s.rels
    THEN {s.rels[RelsPath(part)][i].Target :
              i \in {j \in 1..Len(s.rels[RelsPath(part)]) :
                         s.rels[RelsPath(part)][j].Type = type}}
    ELSE {}

\* the layout, master and theme parts the relationships of a part name
Ancestry(s, part) ==
    TargetsOf(s, part, REL_TYPES.slideLayout)
    \cup TargetsOf(s, part, REL_TYPES.slideMaster)
    \cup TargetsOf(s, part, REL_TYPES.theme)

NewMasterEntries(s, before) ==
    {j \in 1..Len(s.sldMasterIdLst) :
         s.sldMasterIdLst[j] \notin SeqToSet(before.sldMasterIdLst)}

NewPresRels(s, before) ==
    {k \in 1..Len(s.presRels) : s.presRels[k] \notin SeqToSet(before.presRels)}

\* the relationships of presentation.xml.rels an r:id names
NamedBy(s, rid) == {k \in 1..Len(s.presRels) : s.presRels[k].rid = rid}

\* the new master entries whose r:id leads to the path
EntriesOf(s, before, path) ==
    {j \in NewMasterEntries(s, before) :
         \E k \in NamedBy(s, s.sldMasterIdLst[j].rid) : s.presRels[k].target = path}

\* C27: after finalize, every master cloned during the call has exactly one
\* new sldMasterId entry, whose r:id names exactly one relationship of
\* presentation.xml.rels, a new one, targeting the master's new path; there
\* is no other new master entry, and the master entries the package held
\* before the call are all kept, in their original order.
C27_MasterEntries ==
    Rewritten(st) =>
        /\ \A i \in 1..Len(st.newMastersList) :
              /\ Cardinality(EntriesOf(st, pre, st.newMastersList[i].newPath)) = 1
              /\ \A j \in EntriesOf(st, pre, st.newMastersList[i].newPath) :
                    /\ Cardinality(NamedBy(st, st.sldMasterIdLst[j].rid)) = 1
                    /\ NamedBy(st, st.sldMasterIdLst[j].rid) \subseteq NewPresRels(st, pre)
                    /\ \A k \in NamedBy(st, st.sldMasterIdLst[j].rid) :
                          st.presRels[k].type = REL_TYPES.slideMaster
        /\ Cardinality(NewMasterEntries(st, pre)) = Len(st.newMastersList)
        /\ IsSubSeq(pre.sldMasterIdLst, st.sldMasterIdLst)
        /\ Len(st.sldMasterIdLst) = Len(pre.sldMasterIdLst) + Len(st.newMastersList)

\* a call that cloned a master (a call clones one page, hence one master)
\* into a package that held two master entries and a slide already
C27_Witness ==
    /\ pc = "free" /\ Rewritten(st)
    /\ Len(st.newMastersList) = 1
    /\ Len(pre.sldMasterIdLst) = 2
    /\ Len(pre.sldIdLst) >= 1
    /\ Len(st.sldMasterIdLst) = 3
    /\ st.sldMasterIdLst[3].rid \notin {pre.presRels[k].rid : k \in 1..Len(pre.presRels)}
\* the media parts the image relationships of a slide name
ImageTargets(s, slideNumber) ==
    TargetsOf(s, SlidePath(slideNumber), REL_TYPES.image)

\* every image relationship of the i-th slide a call injected names the
\* part that holds the bytes of the call's i-th image, and no two injected
\* slides name the same media part
OwnImages(s, images) ==
    /\ \A i \in 1..Len(s.finalSlides) :
          \A t \in ImageTargets(s, s.finalSlides[i].slideNumber) :
              /\ t \in DOMAIN s.zip
              /\ s.zip[t] = Payload(i, images[i].ext)
    /\ \A i, j \in 1..Len(s.finalSlides) :
          i # j => ImageTargets(s, s.finalSlides[i].slideNumber)
                   \cap ImageTargets(s, s.finalSlides[j].slideNumber) = {}

\* C28: when one call injects several images, each new slide's image
\* relationship targets the media part written for that slide's own image,
\* and the media parts of different injected slides are pairwise distinct.
C28_OwnImagePerSlide ==
    (pc = "free" /\ Rewritten(st) /\ Len(op.images) > 1) => OwnImages(st, op.images)

\* the same for insertImageSlidesByCategory of merged.js alone, for images
\* whose bytes could be read
OwnImagesInMerged ==
    (pc = "free" /\ Rewritten(st) /\ Len(op.images) > 1
        /\ op.name = "insertImageSlidesByCategory"
        /\ \A i \in 1..Len(op.images) : op.images[i].readable)
    => OwnImages(st, op.images)

\* copyTemplateSecondPageForImages of templateSlides.js with two readable
\* images: the first new slide names the copy of a template picture that the
\* layouts brought in
NewestMediaSeen ==
    /\ pc = "free" /\ Rewritten(st) /\ Len(op.images) = 2
    /\ op.name = "copyTemplateSecondPageForImages"
    /\ \E t \in ImageTargets(st, st.finalSlides[1].slideNumber) :
          t.k = "template_media_"
\* an answer that came, with a code other than 1
Refused(answer) == answer # NoAnswer /\ ~answer.thrown /\ answer.code # 1

\* an answer that came, with code 1
Accepted(answer) == answer # NoAnswer /\ ~answer.thrown /\ answer.code = 1

\* C23: when the delivery batch is through, every PDF file has been counted
\* exactly once; a file is counted as succeeded only if the identity lookup
\* answered returnCode 1 and the delivery answered code 1; a lookup or a
\* delivery that answered another code is counted as failed.
C23_DeliveryCounts ==
    (pc = "delivery" /\ batch.at = "done") =>
        /\ Len(op) = Len(batch.pdfFiles)
        /\ batch.successCount + batch.failCount = Len(batch.pdfFiles)
        /\ \A k \in 1..Len(op) :
              /\ op[k].counted = "success" =>
                    Accepted(op[k].qixinResult) /\ Accepted(op[k].sendResult)
              /\ (Refused(op[k].qixinResult) \/ Refused(op[k].sendResult)) =>
                    op[k].counted = "fail"

\* every file is counted exactly once, as succeeded or as failed; a file
\* whose name does not match and a call that throws are counted as failed
DeliveryCountedOnce ==
    (pc = "delivery") =>
        /\ batch.successCount + batch.failCount = Len(op)
        /\ \A k \in 1..Len(op) :
              /\ op[k].counted \in {"success", "fail"}
              /\ (op[k].qixinResult.thrown \/ op[k].sendResult.thrown
                     \/ ~batch.pdfFiles[k]) => op[k].counted = "fail"
        /\ batch.at = "done" => Len(op) = Len(batch.pdfFiles)
        /\ batch.at # "done" => Len(op) = batch.i - 1

\* a delivery that answered a code other than 1 for a file counted as
\* succeeded, in the copy of part_000
RefusedDeliverySeen ==
    /\ pc = "delivery" /\ batch.at = "done" /\ batch.build = "unnamed/part_000"
    /\ \E k \in 1..Len(op) :
          Refused(op[k].sendResult) /\ op[k].counted = "success"
\* the pieces of a slide that stand outside the bodies of its <a:t> text
\* runs, the tags of the runs included
RECURSIVE OutsideTextRuns(_, _)
OutsideTextRuns(xml, inBody) ==
    IF xml = <<>> THEN <<>>
    ELSE IF inBody
    THEN IF Head(xml) = CloseT
         THEN <<CloseT>> \o OutsideTextRuns(Tail(xml), FALSE)
         ELSE OutsideTextRuns(Tail(xml), TRUE)
    ELSE <<Head(xml)>> \o OutsideTextRuns(Tail(xml), Head(xml) = OpenT)

\* the pieces of a slide that stand inside the bodies of its <a:t> text
\* runs, each body closed by its </a:t>
RECURSIVE BodiesOf(_, _)
BodiesOf(xml, inBody) ==
    IF xml = <<>> THEN <<>>
    ELSE IF inBody
    THEN <<Head(xml)>> \o BodiesOf(Tail(xml), Head(xml) # CloseT)
    ELSE BodiesOf(Tail(xml), Head(xml) = OpenT)

\* C24: placeholder substitution changes only the bodies of <a:t> text runs:
\* all that stands outside them in the slide XML is the same in the result,
\* also where the key, {{key}} or [key] stands in a tag.
C24_OnlyTextRunsChange ==
    pc = "replaced" =>
        OutsideTextRuns(op.result, FALSE) = OutsideTextRuns(st.xml, FALSE)

\* replaceTextInSlidePreferred of merged.js keeps all that stands outside the
\* text runs when no element whose name starts with a:t, other than a:t,
\* stands in the slide
OutsideKeptInPlainSlides ==
    (pc = "replaced" /\ op.name = "replaceTextInSlidePreferred"
        /\ CellProps \notin SeqToSet(st.xml))
    => OutsideTextRuns(op.result, FALSE) = OutsideTextRuns(st.xml, FALSE)

\* replaceTextInSlidePreferred of merged.js has put the value in the name
\* attribute of the shape that follows a table cell
NameAttributeRewritten ==
    /\ pc = "replaced" /\ op.name = "replaceTextInSlidePreferred"
    /\ st.value = <<"a">>
    /\ st.xml = <<CellProps>> \o Shape(DirectForm, <<PlaceholderForm>>)
    /\ op.result = <<CellProps, NameAttr, "a", TagEnd, OpenT, "a", CloseT>>

\* a character of a value as it must stand in XML text
Entity(c) ==
    CASE c = "&" -> <<"&", "a", "m", "p", ";">>
      [] c = "<" -> <<"&", "l", "t", ";">>
      [] c = ">" -> <<"&", "g", "t", ";">>
      [] c \in ControlChars -> <<>>
      [] OTHER -> <<c>>

\* the value with each of its characters as it must stand in XML text
Escaped(value) == Flatten([i \in 1..Len(value) |-> Entity(value[i])])

\* the bodies of the text runs with {{key}}, [key] and the key replaced by
\* the text
Substituted(bodies, text) ==
    ReplaceAll(ReplaceAll(ReplaceAll(bodies, PlaceholderForm, text),
                          BracketForm, text),
               DirectForm, text)

\* C25: for every value and each of the three placeholder syntaxes, what
\* replaceTextInSlidePreferred of merged.js puts into a text run in place of
\* the placeholder is the value with every '&', '<' and '>' as its entity,
\* and no raw '&', '<' or '>'.
C25_ValueEscaped ==
    (pc = "replaced" /\ op.name = "replaceTextInSlidePreferred"
        /\ ~ValueSkipped(st.key, st.value))
    => BodiesOf(op.result, FALSE)
           = Substituted(BodiesOf(st.xml, FALSE), Escaped(st.value))

\* the same for the values that hold no dollar sign
EscapedWithoutDollar ==
    (pc = "replaced" /\ op.name = "replaceTextInSlidePreferred"
        /\ ~ValueSkipped(st.key, st.value)
        /\ "$" \notin SeqToSet(st.value))
    => BodiesOf(op.result, FALSE)
           = Substituted(BodiesOf(st.xml, FALSE), Escaped(st.value))

\* the same for the {{key}} syntax, whatever the value
PlaceholderSyntaxEscaped ==
    (pc = "replaced" /\ op.name = "replaceTextInSlidePreferred"
        /\ ~ValueSkipped(st.key, st.value)
        /\ BodiesOf(st.xml, FALSE) \in {<<PlaceholderForm, CloseT>>,
                                        <<PlaceholderForm, CloseT,
                                          PlaceholderForm, CloseT>>})
    => BodiesOf(op.result, FALSE)
           = Substituted(BodiesOf(st.xml, FALSE), Escaped(st.value))

\* the value $& replaced [key] by [key]amp;
DollarPatternSeen ==
    /\ pc = "replaced" /\ op.name = "replaceTextInSlidePreferred"
    /\ st.value = <<"$", "&">>
    /\ st.xml = Shape(PlaceholderForm, <<BracketForm>>)
    /\ op.result = <<NameAttr, PlaceholderForm, TagEnd, OpenT,
                     BracketForm, "a", "m", "p", ";", CloseT>>
====
